---------------------------- MODULE Spec2Model ----------------------------
(***************************************************************************)
(* A model of the sharded concurrent hash map HashMap5<K, V, SLOT_SIZE,    *)
(* BUCKET_SIZE> (src/main/cpp/hashmap/HashMap5.h), instantiated with       *)
(* K = V = int.  A Slot is a std::pmr::unordered_map guarded by one        *)
(* std::shared_mutex; the facade routes a key to slots[slotFor(key)].      *)
(*                                                                         *)
(* A thread's call is modelled in steps: Call (the facade method is        *)
(* entered), shared_lock / unique_lock (the lock constructor at the top of *)
(* the Slot method returns), and one action per Slot method that runs the  *)
(* method's body, callbacks included, and releases the lock on return.     *)
(***************************************************************************)
EXTENDS Integers, Sequences, FiniteSets, TLC

(***************************************************************************)
(* Bounds of the model.                                                    *)
(***************************************************************************)
MaxKey == 4        \* keys are 1..MaxKey
MaxScanKey == 5    \* keys are 1..MaxScanKey where whole-map calls are followed
MaxVal == 2        \* values handed in by callers are 1..MaxVal
NumThreads == 2    \* threads of the concurrent specifications
MaxStored == 2     \* callers stop growing a stored value beyond this
MaxWord == 16      \* hash codes 0..MaxWord where routing is compared on words
MaxShift == 5      \* slot counts 2^0..2^MaxShift where the mask is compared
MaxHint == 9       \* reserve is called with the hints 0..MaxHint
MaxCreated == 2    \* computeIfAbsent2 is called on a key it has created a
                   \* value for fewer than MaxCreated times

(***************************************************************************)
(* Template parameters of the instantiation.                               *)
(***************************************************************************)
SLOT_SIZE == 4

Keys == 1..MaxKey
ScanKeys == 1..MaxScanKey
AllKeys == Keys \cup ScanKeys
Vals == 1..MaxVal
Threads == 1..NumThreads
SlotIds == 0..(SLOT_SIZE - 1)

(***************************************************************************)
(* size_t arithmetic: a 64-bit word is a function from bit position to     *)
(* {0, 1}.  TLC's integers are 32 bits wide, so the finalizer is computed  *)
(* on bits.                                                                *)
(***************************************************************************)
W == 64
Bits == 0..(W - 1)

Pow2(n) == 2^n

\* The word of a small natural number (below 2^31).
U64(n) == [i \in Bits |-> IF i < 31 THEN (n \div Pow2(i)) % 2 ELSE 0]

\* The word written as 16 hexadecimal digits, most significant first.
FromHex(d) == [i \in Bits |-> (d[16 - (i \div 4)] \div Pow2(i % 4)) % 2]

Xor(a, b) == [i \in Bits |-> (a[i] + b[i]) % 2]

Shr(a, n) == [i \in Bits |-> IF i + n < W THEN a[i + n] ELSE 0]

BitAnd(a, b) == [i \in Bits |-> a[i] * b[i]]

\* Multiplication modulo 2^64: column sums with carries.
Col(a, b, i) == Cardinality({j \in 0..i : a[j] = 1 /\ b[i - j] = 1})

RECURSIVE MulFrom(_, _, _, _)
MulFrom(a, b, i, carry) ==
    IF i = W THEN <<>>
    ELSE LET s == Col(a, b, i) + carry
         IN  <<s % 2>> \o MulFrom(a, b, i + 1, s \div 2)

Mul(a, b) == LET p == MulFrom(a, b, 0, 0) IN [i \in Bits |-> p[i + 1]]

\* The value of a word known to be below 2^31.
RECURSIVE LowFrom(_, _)
LowFrom(a, i) == IF i = 31 THEN 0 ELSE a[i] * Pow2(i) + LowFrom(a, i + 1)

ToNat(a) == LowFrom(a, 0)

\* 2^k % n for a small n.
RECURSIVE PowMod(_, _)
PowMod(k, n) == IF k = 0 THEN 1 % n ELSE (2 * PowMod(k - 1, n)) % n

\* The bits lo..hi of a, as a number, % n for a small n: the lower half
\* plus 2^(length of the lower half) times the upper half.
RECURSIVE ModBetween(_, _, _, _)
ModBetween(a, lo, hi, n) ==
    IF lo = hi THEN a[lo] % n
    ELSE LET mid == (lo + hi) \div 2
         IN  (ModBetween(a, lo, mid, n)
                + PowMod(mid + 1 - lo, n) * ModBetween(a, mid + 1, hi, n)) % n

UMod(a, n) == ModBetween(a, 0, W - 1, n)

MULT1 == FromHex(<<11, 15, 5, 8, 4, 7, 6, 13, 1, 12, 14, 4, 14, 5, 11, 9>>)
MULT2 == FromHex(<<9, 4, 13, 0, 4, 9, 11, 11, 1, 3, 3, 1, 1, 1, 14, 11>>)

\* HashMap5::finalize
finalize(h) ==
    LET h1 == Mul(Xor(h, Shr(h, 30)), MULT1)
        h2 == Mul(Xor(h1, Shr(h1, 27)), MULT2)
    IN  Xor(h2, Shr(h2, 31))

\* std::hash<int>: the identity on the value converted to size_t.
hash(key) == U64(key)

SIZE_IS_POW2 ==
    SLOT_SIZE # 0 /\ ToNat(BitAnd(U64(SLOT_SIZE), U64(SLOT_SIZE - 1))) = 0

\* slotFor without the finalizer: the hash code itself is masked.
slotFor_unmixed(key) ==
    IF SIZE_IS_POW2
    THEN ToNat(BitAnd(hash(key), U64(SLOT_SIZE - 1)))
    ELSE UMod(hash(key), SLOT_SIZE)

\* HashMap5::slotFor, as an index into slots.
slotFor(key) ==
    IF SIZE_IS_POW2
    THEN ToNat(BitAnd(finalize(hash(key)), U64(SLOT_SIZE - 1)))
    ELSE UMod(finalize(hash(key)), SLOT_SIZE)

\* HashMap::slotFor of the older map, as an index into its slots: the hash
\* code is masked or reduced as it is.
HashMap_slotFor(key) ==
    IF SIZE_IS_POW2
    THEN ToNat(BitAnd(hash(key), U64(SLOT_SIZE - 1)))
    ELSE UMod(hash(key), SLOT_SIZE)

\* The routing of every key of the model, computed once.
slotTable == [k \in AllKeys |-> slotFor(k)]

(***************************************************************************)
(* std::optional<V>: the empty sequence, or the value alone.               *)
(***************************************************************************)
nullopt == <<>>
Some(v) == <<v>>

(***************************************************************************)
(* std::pmr::unordered_map<K, V>: a function from the keys it holds.       *)
(***************************************************************************)
EmptyMap == <<>>

Has(m, key) == key \in DOMAIN m

Put(m, key, value) ==
    [x \in DOMAIN m \cup {key} |-> IF x = key THEN value ELSE m[x]]

erase(m, key) == [x \in DOMAIN m \ {key} |-> m[x]]

\* unordered_map::emplace: leaves an existing entry alone.
emplace(m, key, value) ==
    IF Has(m, key)
    THEN [map |-> m, inserted |-> FALSE]
    ELSE [map |-> Put(m, key, value), inserted |-> TRUE]

\* The orders in which a range-for may visit the entries of a table: the
\* iteration order of an unordered_map is unspecified.
Orders(m) ==
    {s \in [1..Cardinality(DOMAIN m) -> DOMAIN m] :
        \A i, j \in DOMAIN s : i # j => s[i] # s[j]}

(***************************************************************************)
(* The callbacks callers hand in, by name.                                 *)
(***************************************************************************)
\* merge's remappingFunction(current, next) -> std::optional<V>
RemapFns == {"sum", "next", "empty"}

Remap(fn, current, next) ==
    CASE fn = "sum"   -> Some(current + next)
      [] fn = "next"  -> Some(next)
      [] OTHER        -> nullopt

\* removeIf's predicate(key, value) -> bool
SearchFns == {"evenKey", "valIsOne", "always", "never"}

Search(fn, key, value) ==
    CASE fn = "evenKey"  -> key % 2 = 0
      [] fn = "valIsOne" -> value = 1
      [] fn = "always"   -> TRUE
      [] OTHER           -> FALSE

\* updateIf's predicate(key, value&) -> bool: the value it leaves in place
\* and what it returns.
UpdateFns == {"inc", "incEvenKey", "incButFalse", "never"}

Update(fn, key, value) ==
    CASE fn = "inc"         -> [val |-> value + 1, ret |-> TRUE]
      [] fn = "incEvenKey"  -> IF key % 2 = 0
                               THEN [val |-> value + 1, ret |-> TRUE]
                               ELSE [val |-> value, ret |-> FALSE]
      [] fn = "incButFalse" -> [val |-> value + 1, ret |-> FALSE]
      [] fn = "incOddKey"   -> IF key % 2 = 1
                               THEN [val |-> value + 1, ret |-> TRUE]
                               ELSE [val |-> value, ret |-> FALSE]
      [] OTHER              -> [val |-> value, ret |-> FALSE]

\* An updateIf predicate that fails: it increments the value of an odd key
\* and returns true, and throws when it is shown an even key.
FailingUpdateFns == {"incOddKey"}

UpdateThrows(fn, key, value) == fn \in FailingUpdateFns /\ key % 2 = 0

\* inspect2's callback(const V&), by the shape of its return type
\* (ConcurrentMap.h, section 4): void, a plain R, or std::optional<R>.
InspectFns == {"void", "plain", "optional"}

is_void(fn) == fn = "void"
is_optional(fn) == fn = "optional"

\* A std::optional<...<R>> with its static nesting depth: layers = 1 is
\* std::optional<R>, layers = 2 is std::optional<std::optional<R>>.
OptR(has, r) == [layers |-> 1, has |-> has, val |-> r]

\* std::optional<T>(std::move(result)) around a result that is itself an
\* optional adds a layer.
WrapOpt(o) == [layers |-> o.layers + 1, has |-> TRUE, val |-> o.val]

\* What the callback computes from the value it is shown: the plain shape
\* returns the R 10 * v, the optional shape returns 10 * v for an even v and
\* nothing for an odd one.
PlainResult(value) == 10 * value
OptionalResult(value) ==
    IF value % 2 = 0 THEN OptR(TRUE, 10 * value) ELSE OptR(FALSE, 0)

\* update's callback(V&) and computeIfAbsent's accessCallback(V&): the
\* value it leaves in place.
MutateFns == {"inc", "keep"}

Mutate(fn, value) == IF fn = "inc" THEN value + 1 ELSE value

\* A callback that fails: it throws as soon as it is invoked.
ThrowingFns == {"throws"}

Throws(fn) == fn \in ThrowingFns

\* computeIfAbsent's and computeIfAbsent2's createFunction() that fails:
\* it throws where it would return the value (the accessCallback that goes
\* with it returns).
FailingCreateFns == {"createThrows"}

CreateThrows(fn) == fn \in FailingCreateFns

\* A callback that blocks: once invoked it never returns.
BlockingFns == {"blocks"}

Blocks(fn) == fn \in BlockingFns

\* A callback that calls back into the map it was handed by, for the key
\* it is invoked on: get(key) or add(key, 1).
ReenterFns == {"reenterGet", "reenterAdd"}

Reenters(fn) == fn \in ReenterFns

\* The method a re-entering callback calls.
InnerName(fn) == IF fn = "reenterGet" THEN "get" ELSE "add"

(***************************************************************************)
(* The bodies of the Slot methods, run with the slot's lock held: from the *)
(* table m and the arguments to the table left behind, the value returned  *)
(* and the callback invocations made, in order.                            *)
(***************************************************************************)
Out(m, r, tr) == [map |-> m, res |-> r, trace |-> tr]

\* One invocation of the callback fn, with the arguments it was given.
Invoked(fn, args) == [fn |-> fn, args |-> args]

\* The body was left by an exception a callback threw: the table as it was
\* left and the invocations made, the last of them the one that threw.
Fail(m, tr) == [map |-> m, res |-> "void", trace |-> tr, threw |-> TRUE]

Threw(r) == "threw" \in DOMAIN r

Slot_get(m, key) ==
    IF Has(m, key) THEN Out(m, Some(m[key]), <<>>) ELSE Out(m, nullopt, <<>>)

Slot_contains(m, key) == Out(m, Has(m, key), <<>>)

\* Slot::size that tells only whether the table holds an entry.
Slot_size_nonempty(m) == Out(m, IF m = EmptyMap THEN 0 ELSE 1, <<>>)

Slot_size(m) == Out(m, Cardinality(DOMAIN m), <<>>)

\* Slot::add with the assignment to it->second left out.
Slot_add_keeps(m, key, value) ==
    IF Has(m, key)
    THEN Out(m, Some(m[key]), <<>>)
    ELSE Out(emplace(m, key, value).map, nullopt, <<>>)

Slot_add(m, key, value) ==
    IF Has(m, key)
    THEN LET old == Some(m[key])
         IN  Out([m EXCEPT ![key] = value], old, <<>>)
    ELSE Out(emplace(m, key, value).map, nullopt, <<>>)

\* Slot::tryAdd with insert_or_assign in the place of emplace.
Slot_tryAdd_assigns(m, key, value) ==
    Out(Put(m, key, value), ~Has(m, key), <<>>)

Slot_tryAdd(m, key, value) ==
    LET e == emplace(m, key, value) IN Out(e.map, e.inserted, <<>>)

\* Slot::remove that returns the old value and leaves the entry in place.
Slot_remove_keeps(m, key) ==
    IF Has(m, key) THEN Out(m, Some(m[key]), <<>>) ELSE Out(m, nullopt, <<>>)

\* Slot::remove that empties the table.
Slot_remove_clears(m, key) ==
    IF Has(m, key)
    THEN LET old == Some(m[key]) IN Out(EmptyMap, old, <<>>)
    ELSE Out(m, nullopt, <<>>)

Slot_remove(m, key) ==
    IF Has(m, key)
    THEN LET old == Some(m[key]) IN Out(erase(m, key), old, <<>>)
    ELSE Out(m, nullopt, <<>>)

\* Slot::merge that keeps the entry when the remapping function returns
\* an empty optional.
Slot_merge_keeps(m, key, value, fn) ==
    IF Has(m, key)
    THEN LET result == Remap(fn, m[key], value)
             tr == <<Invoked(fn, <<m[key], value>>)>>
         IN  IF result # nullopt
             THEN Out([m EXCEPT ![key] = result[1]], "void", tr)
             ELSE Out(m, "void", tr)
    ELSE Out(emplace(m, key, value).map, "void", <<>>)

\* Slot::merge that looks the entry up with operator[], so that an absent
\* key is remapped from a value-initialized current value.
Slot_merge_remaps_absent(m, key, value, fn) ==
    LET current == IF Has(m, key) THEN m[key] ELSE 0
        result == Remap(fn, current, value)
        tr == <<Invoked(fn, <<current, value>>)>>
    IN  IF result # nullopt
        THEN Out(Put(m, key, result[1]), "void", tr)
        ELSE Out(erase(m, key), "void", tr)

Slot_merge(m, key, value, fn) ==
    IF Has(m, key)
    THEN LET result == Remap(fn, m[key], value)
             tr == <<Invoked(fn, <<m[key], value>>)>>
         IN  IF Throws(fn) THEN Fail(m, tr)
             ELSE IF result # nullopt
             THEN Out([m EXCEPT ![key] = result[1]], "void", tr)
             ELSE Out(erase(m, key), "void", tr)
    ELSE Out(emplace(m, key, value).map, "void", <<>>)

\* Slot::merge after it = map.find(key), found saying whether
\* it # map.end().
Slot_merge_after(m, key, value, fn, found) ==
    IF found
    THEN LET result == Remap(fn, m[key], value)
             tr == <<Invoked(fn, <<m[key], value>>)>>
         IN  IF Throws(fn) THEN Fail(m, tr)
             ELSE IF result # nullopt
             THEN Out([m EXCEPT ![key] = result[1]], "void", tr)
             ELSE Out(erase(m, key), "void", tr)
    ELSE Out(emplace(m, key, value).map, "void", <<>>)

\* Slot::computeIfAbsent2 after it = map.find(key), found saying whether
\* it # map.end(): createFunction() returns value, or throws before
\* map.emplace is called with what it returns.
Slot_computeIfAbsent2(m, key, value, fn, found) ==
    IF ~found
    THEN LET e == emplace(m, key, value)
             tr == <<Invoked("create", <<>>)>>
         IN  IF CreateThrows(fn) THEN Fail(m, tr)
             ELSE Out(e.map, Some(e.map[key]), tr)
    ELSE Out(m, Some(m[key]), <<>>)

\* Slot::inspect2 that wraps whatever the callback returns.
Slot_inspect2_wraps(m, key, fn) ==
    LET tr == <<Invoked(fn, <<m[key]>>)>>
    IN  IF is_void(fn)
        THEN IF Has(m, key) THEN Out(m, TRUE, tr) ELSE Out(m, FALSE, <<>>)
        ELSE IF Has(m, key)
             THEN IF is_optional(fn)
                  THEN Out(m, WrapOpt(OptionalResult(m[key])), tr)
                  ELSE Out(m, OptR(TRUE, PlainResult(m[key])), tr)
             ELSE Out(m, OptR(FALSE, 0), <<>>)

Slot_inspect2(m, key, fn) ==
    LET tr == <<Invoked(fn, <<m[key]>>)>>
    IN  IF is_void(fn)
        THEN IF Has(m, key) THEN Out(m, TRUE, tr) ELSE Out(m, FALSE, <<>>)
        ELSE IF Has(m, key)
             THEN IF is_optional(fn)
                  THEN Out(m, OptionalResult(m[key]), tr)
                  ELSE Out(m, OptR(TRUE, PlainResult(m[key])), tr)
             ELSE Out(m, OptR(FALSE, 0), <<>>)

\* The entries are visited in the order ord: every predicate call is
\* recorded with the value it was shown, and the value it leaves is stored;
\* a predicate call that throws ends the loop, with the table as the calls
\* before it left it.
RECURSIVE UpdateFrom(_, _, _, _)
UpdateFrom(m, fn, ord, i) ==
    IF i > Len(ord) THEN Out(m, 0, <<>>)
    ELSE LET key == ord[i]
             u == Update(fn, key, m[key])
             rest == UpdateFrom([m EXCEPT ![key] = u.val], fn, ord, i + 1)
             tr == <<Invoked(fn, <<key, m[key]>>)>>
         IN  IF UpdateThrows(fn, key, m[key]) THEN Fail(m, tr)
             ELSE IF Threw(rest) THEN Fail(rest.map, tr \o rest.trace)
             ELSE Out(rest.map,
                      rest.res + (IF u.ret THEN 1 ELSE 0),
                      tr \o rest.trace)

\* Slot::updateIf that puts the table back as it found it when the
\* predicate throws.
Slot_updateIf_rolls_back(m, fn, ord) ==
    LET r == UpdateFrom(m, fn, ord, 1)
    IN  IF Threw(r) THEN Fail(m, r.trace) ELSE r

\* Slot::updateIf that counts every entry it visits.
Slot_updateIf_counts_all(m, fn, ord) ==
    LET r == UpdateFrom(m, fn, ord, 1) IN Out(r.map, Len(ord), r.trace)

Slot_updateIf(m, fn, ord) == UpdateFrom(m, fn, ord, 1)

\* Slot::removeIf that returns the size of the table it leaves.
Slot_removeIf_returns_size(m, fn, ord) ==
    LET gone == {key \in DOMAIN m : Search(fn, key, m[key])}
    IN  Out([x \in DOMAIN m \ gone |-> m[x]],
            Cardinality(DOMAIN m \ gone),
            [i \in 1..Len(ord) |-> Invoked(fn, <<ord[i], m[ord[i]]>>)])

\* std::erase_if: the predicate is called once on every entry, and the
\* entries it accepts are erased.
Slot_removeIf(m, fn, ord) ==
    LET gone == {key \in DOMAIN m : Search(fn, key, m[key])}
    IN  Out([x \in DOMAIN m \ gone |-> m[x]],
            Cardinality(gone),
            [i \in 1..Len(ord) |-> Invoked(fn, <<ord[i], m[ord[i]]>>)])

\* Slot::getOrDefault that emplaces the default for an absent key, as
\* operator[] would.
Slot_getOrDefault_stores(m, key, defaultValue) ==
    IF Has(m, key)
    THEN Out(m, [value |-> m[key], found |-> TRUE], <<>>)
    ELSE Out(Put(m, key, defaultValue), [value |-> defaultValue, found |-> FALSE], <<>>)

\* Slot::getOrDefault: the value returned and the out-parameter found.
Slot_getOrDefault(m, key, defaultValue) ==
    IF Has(m, key)
    THEN Out(m, [value |-> m[key], found |-> TRUE], <<>>)
    ELSE Out(m, [value |-> defaultValue, found |-> FALSE], <<>>)

\* Slot::inspect: the callback is shown the value, which it cannot change.
Slot_inspect(m, key, fn) ==
    IF Has(m, key)
    THEN LET tr == <<Invoked(fn, <<m[key]>>)>>
         IN  IF Throws(fn) THEN Fail(m, tr) ELSE Out(m, TRUE, tr)
    ELSE Out(m, FALSE, <<>>)

\* Slot::update that emplaces a value-initialized entry for an absent key
\* before it invokes the callback.
Slot_update_inserts(m, key, fn) ==
    LET current == IF Has(m, key) THEN m[key] ELSE 0
        tr == <<Invoked(fn, <<current>>)>>
    IN  IF Throws(fn) THEN Fail(Put(m, key, current), tr)
        ELSE Out(Put(m, key, Mutate(fn, current)), TRUE, tr)

\* Slot::update that invokes the callback on a copy of the value.
Slot_update_copy(m, key, fn) ==
    IF Has(m, key)
    THEN LET tr == <<Invoked(fn, <<m[key]>>)>>
         IN  IF Throws(fn) THEN Fail(m, tr) ELSE Out(m, TRUE, tr)
    ELSE Out(m, FALSE, <<>>)

\* Slot::update: the callback is handed it->second by reference, and what
\* it leaves there is stored.
Slot_update(m, key, fn) ==
    IF Has(m, key)
    THEN LET tr == <<Invoked(fn, <<m[key]>>)>>
         IN  IF Throws(fn) THEN Fail(m, tr)
             ELSE Out([m EXCEPT ![key] = Mutate(fn, m[key])], TRUE, tr)
    ELSE Out(m, FALSE, <<>>)

\* Slot::computeIfAbsent that creates and stores a value whether or not
\* the key was found.
Slot_computeIfAbsent_replaces(m, key, value, fn, found) ==
    Out(Put(m, key, Mutate(fn, value)), "void",
        <<Invoked("create", <<>>), Invoked(fn, <<value>>)>>)

\* Slot::computeIfAbsent after it = map.find(key), found saying whether
\* it # map.end(): createFunction() returns value, or throws before
\* map.emplace is called, and accessCallback is handed it->second by
\* reference; if it throws, the table is left as it is by then.
\* Slot::computeIfAbsent that takes the entry it has created out again
\* when accessCallback throws.
Slot_computeIfAbsent_undoes(m, key, value, fn, found) ==
    LET e == IF found THEN m ELSE emplace(m, key, value).map
        tr == (IF found THEN <<>> ELSE <<Invoked("create", <<>>)>>)
                \o <<Invoked(fn, <<e[key]>>)>>
    IN  IF ~found /\ CreateThrows(fn) THEN Fail(m, <<Invoked("create", <<>>)>>)
        ELSE IF Throws(fn) THEN Fail(m, tr)
        ELSE Out([e EXCEPT ![key] = Mutate(fn, e[key])], "void", tr)

Slot_computeIfAbsent(m, key, value, fn, found) ==
    LET e == IF found THEN m ELSE emplace(m, key, value).map
        tr == (IF found THEN <<>> ELSE <<Invoked("create", <<>>)>>)
                \o <<Invoked(fn, <<e[key]>>)>>
    IN  IF ~found /\ CreateThrows(fn) THEN Fail(m, <<Invoked("create", <<>>)>>)
        ELSE IF Throws(fn) THEN Fail(e, tr)
        ELSE Out([e EXCEPT ![key] = Mutate(fn, e[key])], "void", tr)

\* Slot::forEach that stops before the last entry.
Slot_forEach_skips(m, fn, ord) ==
    IF Throws(fn) /\ Len(ord) > 0
    THEN Fail(m, <<Invoked(fn, <<ord[1], m[ord[1]]>>)>>)
    ELSE Out(m, "void", [i \in 1..(Len(ord) - 1) |-> Invoked(fn, <<ord[i], m[ord[i]]>>)])

\* Slot::forEach: the callback is invoked on every entry, in the order ord.
Slot_forEach(m, fn, ord) ==
    IF Throws(fn) /\ Len(ord) > 0
    THEN Fail(m, <<Invoked(fn, <<ord[1], m[ord[1]]>>)>>)
    ELSE Out(m, "void", [i \in 1..Len(ord) |-> Invoked(fn, <<ord[i], m[ord[i]]>>)])

\* The position in ord of the first entry the callback returns true on, or
\* Len(ord) + 1 if there is none.
RECURSIVE FirstFrom(_, _, _, _)
FirstFrom(m, fn, ord, i) ==
    IF i > Len(ord) \/ Search(fn, ord[i], m[ord[i]]) THEN i
    ELSE FirstFrom(m, fn, ord, i + 1)

\* Slot::forEachUntil that returns true if the callback stopped the scan
\* and false after a full scan.
Slot_forEachUntil_negated(m, fn, ord) ==
    IF Throws(fn) /\ Len(ord) > 0
    THEN Fail(m, <<Invoked(fn, <<ord[1], m[ord[1]]>>)>>)
    ELSE LET stop == FirstFrom(m, fn, ord, 1)
             last == IF stop > Len(ord) THEN Len(ord) ELSE stop
         IN  Out(m, stop <= Len(ord),
                 [i \in 1..last |-> Invoked(fn, <<ord[i], m[ord[i]]>>)])

\* Slot::forEachUntil: the entries are visited in the order ord until the
\* callback returns true; false is returned if it did, true after a full
\* scan.
Slot_forEachUntil(m, fn, ord) ==
    IF Throws(fn) /\ Len(ord) > 0
    THEN Fail(m, <<Invoked(fn, <<ord[1], m[ord[1]]>>)>>)
    ELSE LET stop == FirstFrom(m, fn, ord, 1)
             last == IF stop > Len(ord) THEN Len(ord) ELSE stop
         IN  Out(m, stop > Len(ord),
                 [i \in 1..last |-> Invoked(fn, <<ord[i], m[ord[i]]>>)])

\* Slot::find: forEachUntil with a callback that keeps the value of the
\* entry the predicate accepts.
Slot_find(m, fn, ord) ==
    LET r == Slot_forEachUntil(m, fn, ord)
    IN  IF Threw(r) THEN r
        ELSE IF r.res THEN Out(m, nullopt, r.trace)
        ELSE Out(m, Some(r.trace[Len(r.trace)].args[2]), r.trace)

\* Slot::clear that leaves the table as it is.
Slot_clear_keeps(m) == Out(m, "void", <<>>)

Slot_clear(m) == Out(EmptyMap, "void", <<>>)

(***************************************************************************)
(* The older HashMap.  std::shared_ptr<V>: the null pointer, or a pointer  *)
(* to a copy of the value that std::make_shared made.                      *)
(***************************************************************************)
nullptr == [null |-> TRUE]
make_shared(v) == [null |-> FALSE, pointee |-> v]

\* The methods of HashMap::Slot, each run under its std::shared_lock or
\* std::unique_lock.
HashMap_Slot_get(m, key) ==
    IF Has(m, key) THEN Out(m, make_shared(m[key]), <<>>) ELSE Out(m, nullptr, <<>>)

\* HashMap::Slot::remove that leaves the entry in place.
HashMap_Slot_remove_keeps(m, key) ==
    IF Has(m, key) THEN Out(m, make_shared(m[key]), <<>>) ELSE Out(m, nullptr, <<>>)

HashMap_Slot_remove(m, key) ==
    IF Has(m, key)
    THEN LET value == make_shared(m[key]) IN Out(erase(m, key), value, <<>>)
    ELSE Out(m, nullptr, <<>>)

HashMap_Slot_add(m, key, value) ==
    IF Has(m, key)
    THEN LET old == m[key]
         IN  Out([m EXCEPT ![key] = value], make_shared(old), <<>>)
    ELSE Out(Put(m, key, value), nullptr, <<>>)

HashMap_Slot_contains(m, key) == Out(m, Has(m, key), <<>>)

HashMap_Slot_size(m) == Out(m, Cardinality(DOMAIN m), <<>>)

HashMap_Slot_clear(m) == Out(EmptyMap, "void", <<>>)

\* HashMap::size: the loop over the slots from slot i on.
RECURSIVE HashMap_size(_, _)
HashMap_size(s, i) ==
    IF i = SLOT_SIZE THEN 0
    ELSE HashMap_Slot_size(s[i]).res + HashMap_size(s, i + 1)

\* HashMap::clear: the loop over the slots.
HashMap_clear(s) == [i \in SlotIds |-> HashMap_Slot_clear(s[i]).map]

\* A keyed method of HashMap: the Slot method is run on slotFor(key).
HashMap_keyed(s, o) ==
    LET m == s[HashMap_slotFor(o.key)]
    IN  CASE o.name = "get"      -> HashMap_Slot_get(m, o.key)
          [] o.name = "remove"   -> HashMap_Slot_remove(m, o.key)
          [] o.name = "add"      -> HashMap_Slot_add(m, o.key, o.val)
          [] o.name = "contains" -> HashMap_Slot_contains(m, o.key)

\* Slot::reserve: map.reserve(hint) leaves the entries as they are; the
\* call is recorded with the hint it was given.
Slot_reserve(m, hint) == Out(m, "void", <<Invoked("map.reserve", <<hint>>)>>)

(***************************************************************************)
(* The calls of the facade: the method, its key and value arguments and    *)
(* its callback.                                                           *)
(***************************************************************************)
CallOf(name, key, val, fn) == [name |-> name, key |-> key, val |-> val, fn |-> fn]

NoCall == CallOf("none", 0, 0, "none")

KeyCalls(name) == {CallOf(name, k, 0, "none") : k \in Keys}
KeyValCalls(name) == {CallOf(name, k, v, "none") : k \in Keys, v \in Vals}

GetCalls == KeyCalls("get")
ContainsCalls == KeyCalls("contains")
RemoveCalls == KeyCalls("remove")
AddCalls == KeyValCalls("add")
TryAddCalls == KeyValCalls("tryAdd")
ComputeIfAbsent2Calls == KeyValCalls("computeIfAbsent2")
MergeCalls == {CallOf("merge", k, v, f) : k \in Keys, v \in Vals, f \in RemapFns}
Inspect2Calls == {CallOf("inspect2", k, 0, f) : k \in Keys, f \in InspectFns}
UpdateIfCalls == {CallOf("updateIf", 0, 0, f) : f \in UpdateFns}
RemoveIfCalls == {CallOf("removeIf", 0, 0, f) : f \in SearchFns}
SizeCalls == {CallOf("size", 0, 0, "none")}
GetOrDefaultCalls == KeyValCalls("getOrDefault")
InspectCalls == {CallOf("inspect", k, 0, "void") : k \in Keys}
UpdateCalls == {CallOf("update", k, 0, f) : k \in Keys, f \in MutateFns}
ComputeIfAbsentCalls ==
    {CallOf("computeIfAbsent", k, v, f) : k \in Keys, v \in Vals, f \in MutateFns}
ForEachCalls == {CallOf("forEach", 0, 0, "void")}
ForEachUntilCalls == {CallOf("forEachUntil", 0, 0, f) : f \in SearchFns}
FindCalls == {CallOf("find", 0, 0, f) : f \in SearchFns}
ContainsIfCalls == {CallOf("containsIf", 0, 0, f) : f \in SearchFns}
ClearCalls == {CallOf("clear", 0, 0, "none")}
ReserveCalls == {CallOf("reserve", 0, v, "none") : v \in Vals}

\* The facade methods that loop over all slots.
WholeMapOps ==
    {"updateIf", "removeIf", "size", "forEach", "forEachUntil", "find",
     "containsIf", "clear", "reserve"}

\* computeIfAbsent2 taking the mutex with std::shared_lock as well.
SharedOps_and_compute ==
    {"get", "getOrDefault", "inspect", "inspect2", "forEach", "forEachUntil",
     "contains", "find", "containsIf", "size", "computeIfAbsent2"}

\* add taking the mutex with std::shared_lock as well.
SharedOps_and_add ==
    {"get", "getOrDefault", "inspect", "inspect2", "forEach", "forEachUntil",
     "contains", "find", "containsIf", "size", "add"}

\* merge taking the mutex with std::shared_lock as well.
SharedOps_and_merge ==
    {"get", "getOrDefault", "inspect", "inspect2", "forEach", "forEachUntil",
     "contains", "find", "containsIf", "size", "merge"}

\* std::shared_lock in get, contains, inspect, inspect2, forEach, find and
\* size only, std::unique_lock in every other Slot method.
SharedOps_listed ==
    {"get", "contains", "inspect", "inspect2", "forEach", "find", "size"}

\* The Slot methods that take the mutex with std::shared_lock, by the
\* facade method that calls them (find and containsIf take it in
\* Slot::forEachUntil); the others take it with std::unique_lock.
SharedOps ==
    {"get", "getOrDefault", "inspect", "inspect2", "forEach", "forEachUntil",
     "contains", "find", "containsIf", "size"}

VARIABLES
    slots,    \* slots[i]: the table of slot i
    mutex,    \* mutex[i]: the thread holding slot i's mutex exclusively
              \* (0: none) and the threads holding it shared
    pc,       \* where each thread is: "idle", "lock" (at the lock of slot
              \* idx), "crit" (holding it), "found" or "absent" (holding it,
              \* after a find), "done" (returned), "threw" (left by an
              \* exception that reached the caller); in a callback that
              \* re-enters the map: "relock" (at the lock of the inner
              \* call), "inner" (in the inner call's body), "back" (the
              \* inner call has returned), "stuck" (blocked for ever);
              \* "blocked" (in a callback that does not return)
    op,       \* the call each thread is in, or has returned from
    idx,      \* the slot the thread's call is at
    acc,      \* the running total of a whole-map call
    res,      \* what the thread's last call returned
    trace,    \* the callback invocations of the thread's call so far
    pre,      \* the tables as they were when the thread's call began
    prev,     \* the last call whose Slot method has run
    after,    \* the call that ran last before the thread's own
    created,  \* how often the create function of a computeIfAbsent2 call
              \* was invoked for each key
    HashMap_slots,  \* the tables of the slots of the older HashMap
    HashMap_res     \* what the last call on the older HashMap returned

HashMap_vars == <<HashMap_slots, HashMap_res>>

vars == <<slots, mutex, pc, op, idx, acc, res, trace, pre, prev, after,
          created, HashMap_slots, HashMap_res>>

Unlocked == [writer |-> 0, readers |-> {}]

Init ==
    /\ slots = [i \in SlotIds |-> EmptyMap]
    /\ mutex = [i \in SlotIds |-> Unlocked]
    /\ pc = [t \in Threads |-> "idle"]
    /\ op = [t \in Threads |-> NoCall]
    /\ idx = [t \in Threads |-> 0]
    /\ acc = [t \in Threads |-> 0]
    /\ res = [t \in Threads |-> "void"]
    /\ trace = [t \in Threads |-> <<>>]
    /\ pre = [t \in Threads |-> [i \in SlotIds |-> EmptyMap]]
    /\ prev = NoCall
    /\ after = [t \in Threads |-> NoCall]
    /\ created = [k \in AllKeys |-> 0]
    /\ HashMap_slots = [i \in SlotIds |-> EmptyMap]
    /\ HashMap_res = "void"

\* The values stored anywhere in the map.
Stored == UNION {{slots[i][k] : k \in DOMAIN slots[i]} : i \in SlotIds}

\* Callers do not grow a stored value beyond MaxStored, and do not have a
\* value created for the same key more than MaxCreated times.
Bounded(o) ==
    /\ (o.name = "merge" /\ o.fn = "sum") =>
            \A v \in Stored : v + o.val <= MaxStored
    /\ (o.name = "updateIf"
            /\ o.fn \in {"inc", "incEvenKey", "incButFalse"} \cup FailingUpdateFns) =>
            \A v \in Stored : v + 1 <= MaxStored
    /\ (o.name \in {"update", "computeIfAbsent"} /\ o.fn = "inc") =>
            \A v \in Stored \cup {o.val} : v + 1 <= MaxStored
    /\ o.name = "computeIfAbsent2" => created[o.key] < MaxCreated

\* A facade method that hands slotFor a key it has moved from: slotFor
\* sees a value-initialized key, whose hash code 0 finalize leaves at 0.
Enter_moved_from(t, o) ==
    /\ pc[t] \in {"idle", "done", "threw"}
    /\ Bounded(o)
    /\ pc' = [pc EXCEPT ![t] = "lock"]
    /\ op' = [op EXCEPT ![t] = o]
    /\ idx' = [idx EXCEPT ![t] = 0]
    /\ acc' = [acc EXCEPT ![t] = 0]
    /\ res' = [res EXCEPT ![t] = "void"]
    /\ trace' = [trace EXCEPT ![t] = <<>>]
    /\ pre' = [pre EXCEPT ![t] = slots]
    /\ after' = [after EXCEPT ![t] = NoCall]
    /\ UNCHANGED <<slots, mutex, created>>

\* A facade method is entered: a keyed call goes to slotFor(key), a
\* whole-map call starts at slots[0].
Enter(t, o) ==
    /\ pc[t] \in {"idle", "done", "threw"}
    /\ Bounded(o)
    /\ pc' = [pc EXCEPT ![t] = "lock"]
    /\ op' = [op EXCEPT ![t] = o]
    /\ idx' = [idx EXCEPT ![t] = IF o.name \in WholeMapOps THEN 0 ELSE slotTable[o.key]]
    /\ acc' = [acc EXCEPT ![t] = 0]
    /\ res' = [res EXCEPT ![t] = "void"]
    /\ trace' = [trace EXCEPT ![t] = <<>>]
    /\ pre' = [pre EXCEPT ![t] = slots]
    /\ after' = [after EXCEPT ![t] = NoCall]
    /\ UNCHANGED <<slots, mutex, created>>

\* A call whose predecessor is not followed.
Call(t, o) == Enter(t, o) /\ prev' = NoCall /\ UNCHANGED HashMap_vars

\* A call made right after the last one, which is remembered.
CallNext(t, o) == Enter(t, o) /\ UNCHANGED <<prev, HashMap_vars>>

\* The call o is made on the older HashMap, by a caller that is alone: the
\* locks it takes are free and it has released them when it returns.
HashMap_call(o) ==
    CASE o.name = "size" ->
            /\ HashMap_res' = HashMap_size(HashMap_slots, 0)
            /\ UNCHANGED HashMap_slots
      [] o.name = "clear" ->
            /\ HashMap_slots' = HashMap_clear(HashMap_slots)
            /\ HashMap_res' = "void"
      [] OTHER ->
            LET r == HashMap_keyed(HashMap_slots, o)
            IN  /\ HashMap_slots' = [HashMap_slots EXCEPT ![HashMap_slotFor(o.key)] = r.map]
                /\ HashMap_res' = r.res

\* The same call is made on the older HashMap, where it runs at once, and
\* on HashMap5.
CallBoth(t, o) == Enter(t, o) /\ prev' = NoCall /\ HashMap_call(o)

\* The one call of a thread that makes a single call.
CallOnce(t, o) == pc[t] = "idle" /\ Call(t, o)

\* std::shared_lock lock(mutex): blocks while a writer holds the mutex.
shared_lock(t) ==
    /\ mutex[idx[t]].writer = 0
    /\ mutex' = [mutex EXCEPT ![idx[t]].readers = @ \cup {t}]

\* std::unique_lock lock(mutex): blocks while anyone holds the mutex.
unique_lock(t) ==
    /\ mutex[idx[t]] = Unlocked
    /\ mutex' = [mutex EXCEPT ![idx[t]].writer = t]

\* The first statement of every Slot method: the lock is taken, shared or
\* exclusive as the method declares it.
lock(t) ==
    /\ pc[t] = "lock"
    /\ IF op[t].name \in SharedOps THEN shared_lock(t) ELSE unique_lock(t)
    /\ pc' = [pc EXCEPT ![t] = "crit"]
    /\ UNCHANGED <<slots, op, idx, acc, res, trace, pre, prev, after, created, HashMap_vars>>

\* A lock that is not released when the Slot method returns.
unlock_leaks(t) == UNCHANGED mutex

\* The lock's destructor, when the Slot method returns.
unlock(t) ==
    mutex' = [mutex EXCEPT ![idx[t]] =
                [writer |-> IF @.writer = t THEN 0 ELSE @.writer,
                 readers |-> @.readers \ {t}]]

\* What is remembered of a call for the calls that follow it.
Summary(o) == IF o.name \in {"add", "remove"} THEN o ELSE CallOf("other", 0, 0, "none")

InBody(t, name) == pc[t] = "crit" /\ op[t].name = name

\* The body of a keyed Slot method has run with outcome r: the method
\* returns, and the facade returns what it returned.
Return(t, r) ==
    /\ slots' = [slots EXCEPT ![idx[t]] = r.map]
    /\ unlock(t)
    /\ pc' = [pc EXCEPT ![t] = "done"]
    /\ res' = [res EXCEPT ![t] = r.res]
    /\ trace' = [trace EXCEPT ![t] = @ \o r.trace]
    /\ prev' = Summary(op[t])
    /\ after' = [after EXCEPT ![t] = prev]
    /\ UNCHANGED <<op, idx, acc, pre>>

\* What is remembered of a call that an exception ended.
Failure(o) == CallOf("threw", o.key, 0, "none")

\* An exception that leaves the Slot method with its mutex still locked.
Throw_keeps_lock(t, r) ==
    /\ slots' = [slots EXCEPT ![idx[t]] = r.map]
    /\ pc' = [pc EXCEPT ![t] = "threw"]
    /\ trace' = [trace EXCEPT ![t] = @ \o r.trace]
    /\ prev' = Failure(op[t])
    /\ after' = [after EXCEPT ![t] = prev]
    /\ UNCHANGED <<mutex, op, idx, acc, res, pre>>

\* A callback has thrown in the body of a Slot method, with outcome r: the
\* lock's destructor runs as the exception leaves the method, and the
\* facade method, which catches nothing, is left by the exception as well.
Throw(t, r) ==
    /\ slots' = [slots EXCEPT ![idx[t]] = r.map]
    /\ unlock(t)
    /\ pc' = [pc EXCEPT ![t] = "threw"]
    /\ trace' = [trace EXCEPT ![t] = @ \o r.trace]
    /\ prev' = Failure(op[t])
    /\ after' = [after EXCEPT ![t] = prev]
    /\ UNCHANGED <<op, idx, acc, res, pre>>

\* The body of a keyed Slot method has run with outcome r.
Finish(t, r) == IF Threw(r) THEN Throw(t, r) ELSE Return(t, r)

\* The loop of a whole-map method with total = in the place of total +=.
Advance_overwrites(t, r) ==
    /\ slots' = [slots EXCEPT ![idx[t]] = r.map]
    /\ unlock(t)
    /\ trace' = [trace EXCEPT ![t] = @ \o r.trace]
    /\ acc' = [acc EXCEPT ![t] = r.res]
    /\ prev' = Summary(op[t])
    /\ after' = [after EXCEPT ![t] = prev]
    /\ IF idx[t] + 1 < SLOT_SIZE
       THEN /\ idx' = [idx EXCEPT ![t] = @ + 1]
            /\ pc' = [pc EXCEPT ![t] = "lock"]
            /\ UNCHANGED res
       ELSE /\ pc' = [pc EXCEPT ![t] = "done"]
            /\ res' = [res EXCEPT ![t] = r.res]
            /\ UNCHANGED idx
    /\ UNCHANGED <<op, pre>>

\* The loop of a whole-map method with a total that takes the lock of the
\* next slot before it lets go of the locks it holds, and releases them
\* all when it returns.
Advance_keeps_lock(t, r) ==
    /\ slots' = [slots EXCEPT ![idx[t]] = r.map]
    /\ trace' = [trace EXCEPT ![t] = @ \o r.trace]
    /\ acc' = [acc EXCEPT ![t] = @ + r.res]
    /\ prev' = Summary(op[t])
    /\ after' = [after EXCEPT ![t] = prev]
    /\ IF idx[t] + 1 < SLOT_SIZE
       THEN /\ idx' = [idx EXCEPT ![t] = @ + 1]
            /\ pc' = [pc EXCEPT ![t] = "lock"]
            /\ UNCHANGED <<res, mutex>>
       ELSE /\ pc' = [pc EXCEPT ![t] = "done"]
            /\ res' = [res EXCEPT ![t] = acc[t] + r.res]
            /\ mutex' = [i \in SlotIds |->
                            [writer |-> IF mutex[i].writer = t THEN 0 ELSE mutex[i].writer,
                             readers |-> mutex[i].readers \ {t}]]
            /\ UNCHANGED idx
    /\ UNCHANGED <<op, pre>>

\* A whole-map method has run its Slot method on slots[idx] with outcome r
\* and adds what it returned to its total: it goes on to the next slot, or
\* returns the total after the last.
Advance(t, r) ==
    /\ slots' = [slots EXCEPT ![idx[t]] = r.map]
    /\ unlock(t)
    /\ trace' = [trace EXCEPT ![t] = @ \o r.trace]
    /\ acc' = [acc EXCEPT ![t] = @ + r.res]
    /\ prev' = Summary(op[t])
    /\ after' = [after EXCEPT ![t] = prev]
    /\ IF idx[t] + 1 < SLOT_SIZE
       THEN /\ idx' = [idx EXCEPT ![t] = @ + 1]
            /\ pc' = [pc EXCEPT ![t] = "lock"]
            /\ UNCHANGED res
       ELSE /\ pc' = [pc EXCEPT ![t] = "done"]
            /\ res' = [res EXCEPT ![t] = acc[t] + r.res]
            /\ UNCHANGED idx
    /\ UNCHANGED <<op, pre>>

\* The loop of a whole-map method that holds on to the lock of a slot
\* while it goes on to the next.
Loop_keeps_lock(t, r, brk, result) ==
    /\ slots' = [slots EXCEPT ![idx[t]] = r.map]
    /\ trace' = [trace EXCEPT ![t] = @ \o r.trace]
    /\ prev' = Summary(op[t])
    /\ after' = [after EXCEPT ![t] = prev]
    /\ IF ~brk /\ idx[t] + 1 < SLOT_SIZE
       THEN /\ idx' = [idx EXCEPT ![t] = @ + 1]
            /\ pc' = [pc EXCEPT ![t] = "lock"]
            /\ UNCHANGED <<res, mutex>>
       ELSE /\ pc' = [pc EXCEPT ![t] = "done"]
            /\ res' = [res EXCEPT ![t] = result]
            /\ unlock(t)
            /\ UNCHANGED idx
    /\ UNCHANGED <<op, acc, pre>>

\* A whole-map method without a total has run its Slot method on
\* slots[idx] with outcome r: it returns result if brk says that the loop
\* is left or the slot was the last, else it goes on to the next slot.
Loop(t, r, brk, result) ==
    /\ slots' = [slots EXCEPT ![idx[t]] = r.map]
    /\ unlock(t)
    /\ trace' = [trace EXCEPT ![t] = @ \o r.trace]
    /\ prev' = Summary(op[t])
    /\ after' = [after EXCEPT ![t] = prev]
    /\ IF ~brk /\ idx[t] + 1 < SLOT_SIZE
       THEN /\ idx' = [idx EXCEPT ![t] = @ + 1]
            /\ pc' = [pc EXCEPT ![t] = "lock"]
            /\ UNCHANGED res
       ELSE /\ pc' = [pc EXCEPT ![t] = "done"]
            /\ res' = [res EXCEPT ![t] = result]
            /\ UNCHANGED idx
    /\ UNCHANGED <<op, acc, pre>>

get(t) ==
    /\ InBody(t, "get")
    /\ Return(t, Slot_get(slots[idx[t]], op[t].key))
    /\ UNCHANGED <<created, HashMap_vars>>

contains(t) ==
    /\ InBody(t, "contains")
    /\ Return(t, Slot_contains(slots[idx[t]], op[t].key))
    /\ UNCHANGED <<created, HashMap_vars>>

add(t) ==
    /\ InBody(t, "add")
    /\ Return(t, Slot_add(slots[idx[t]], op[t].key, op[t].val))
    /\ UNCHANGED <<created, HashMap_vars>>

tryAdd(t) ==
    /\ InBody(t, "tryAdd")
    /\ Return(t, Slot_tryAdd(slots[idx[t]], op[t].key, op[t].val))
    /\ UNCHANGED <<created, HashMap_vars>>

remove(t) ==
    /\ InBody(t, "remove")
    /\ Return(t, Slot_remove(slots[idx[t]], op[t].key))
    /\ UNCHANGED <<created, HashMap_vars>>

merge(t) ==
    /\ InBody(t, "merge")
    /\ Finish(t, Slot_merge(slots[idx[t]], op[t].key, op[t].val, op[t].fn))
    /\ UNCHANGED <<created, HashMap_vars>>

\* Slot::merge in two steps, where it matters what other threads do in
\* between: auto it = map.find(key), after which the thread goes on
\* knowing whether it found the key.
merge_find(t) ==
    /\ InBody(t, "merge")
    /\ pc' = [pc EXCEPT ![t] =
                IF Has(slots[idx[t]], op[t].key) THEN "found" ELSE "absent"]
    /\ UNCHANGED <<slots, mutex, op, idx, acc, res, trace, pre, prev, after, created, HashMap_vars>>

\* The rest of Slot::merge.
merge_remap(t) ==
    /\ pc[t] \in {"found", "absent"}
    /\ op[t].name = "merge"
    /\ Finish(t, Slot_merge_after(slots[idx[t]], op[t].key, op[t].val,
                                  op[t].fn, pc[t] = "found"))
    /\ UNCHANGED <<created, HashMap_vars>>

inspect2(t) ==
    /\ InBody(t, "inspect2")
    /\ Return(t, Slot_inspect2(slots[idx[t]], op[t].key, op[t].fn))
    /\ UNCHANGED <<created, HashMap_vars>>

\* auto it = map.find(key) of Slot::computeIfAbsent2: the thread goes on
\* knowing whether it found the key.
computeIfAbsent2_find(t) ==
    /\ InBody(t, "computeIfAbsent2")
    /\ pc' = [pc EXCEPT ![t] =
                IF Has(slots[idx[t]], op[t].key) THEN "found" ELSE "absent"]
    /\ UNCHANGED <<slots, mutex, op, idx, acc, res, trace, pre, prev, after, created, HashMap_vars>>

\* The rest of Slot::computeIfAbsent2.
computeIfAbsent2(t) ==
    /\ pc[t] \in {"found", "absent"}
    /\ op[t].name = "computeIfAbsent2"
    /\ LET r == Slot_computeIfAbsent2(slots[idx[t]], op[t].key, op[t].val,
                                      op[t].fn, pc[t] = "found")
       IN  /\ Finish(t, r)
           /\ created' = [created EXCEPT ![op[t].key] = @ + Len(r.trace)]
           /\ UNCHANGED HashMap_vars

\* An exception of the predicate leaves Slot::updateIf and the facade's
\* loop over the slots.
updateIf(t) ==
    /\ InBody(t, "updateIf")
    /\ \E ord \in Orders(slots[idx[t]]) :
            LET r == Slot_updateIf(slots[idx[t]], op[t].fn, ord)
            IN  IF Threw(r) THEN Throw(t, r) ELSE Advance(t, r)
    /\ UNCHANGED <<created, HashMap_vars>>

removeIf(t) ==
    /\ InBody(t, "removeIf")
    /\ \E ord \in Orders(slots[idx[t]]) :
            Advance(t, Slot_removeIf(slots[idx[t]], op[t].fn, ord))
    /\ UNCHANGED <<created, HashMap_vars>>

size(t) ==
    /\ InBody(t, "size")
    /\ Advance(t, Slot_size(slots[idx[t]]))
    /\ UNCHANGED <<created, HashMap_vars>>

getOrDefault(t) ==
    /\ InBody(t, "getOrDefault")
    /\ Return(t, Slot_getOrDefault(slots[idx[t]], op[t].key, op[t].val))
    /\ UNCHANGED <<created, HashMap_vars>>

inspect(t) ==
    /\ InBody(t, "inspect")
    /\ ~(Reenters(op[t].fn) /\ Has(slots[idx[t]], op[t].key))
    /\ ~(Blocks(op[t].fn) /\ Has(slots[idx[t]], op[t].key))
    /\ Finish(t, Slot_inspect(slots[idx[t]], op[t].key, op[t].fn))
    /\ UNCHANGED <<created, HashMap_vars>>

update(t) ==
    /\ InBody(t, "update")
    /\ ~(Reenters(op[t].fn) /\ Has(slots[idx[t]], op[t].key))
    /\ ~(Blocks(op[t].fn) /\ Has(slots[idx[t]], op[t].key))
    /\ Finish(t, Slot_update(slots[idx[t]], op[t].key, op[t].fn))
    /\ UNCHANGED <<created, HashMap_vars>>

\* Slot::inspect or Slot::update has found the key and invokes a callback
\* that calls get(key) or add(key, 1) on the same map: the inner call is
\* routed to the same slot and comes to the lock constructor of its Slot
\* method while the thread holds the mutex.
callback_reenters(t) ==
    /\ pc[t] = "crit"
    /\ op[t].name \in {"inspect", "update"}
    /\ Reenters(op[t].fn)
    /\ Has(slots[idx[t]], op[t].key)
    /\ pc' = [pc EXCEPT ![t] = "relock"]
    /\ trace' = [trace EXCEPT ![t] =
                    @ \o <<Invoked(op[t].fn, <<slots[idx[t]][op[t].key]>>)>>]
    /\ UNCHANGED <<slots, mutex, op, idx, acc, res, pre, prev, after, created, HashMap_vars>>

\* A mutex that lets the thread that holds it in again, in any mode.
relock_recursive(t) ==
    /\ pc[t] = "relock"
    /\ pc' = [pc EXCEPT ![t] = "inner"]
    /\ UNCHANGED <<slots, mutex, op, idx, acc, res, trace, pre, prev, after, created, HashMap_vars>>

\* The lock constructor of the inner call, on a std::shared_mutex that the
\* calling thread owns: the behaviour is undefined.  The thread blocks for
\* ever, or lock() / lock_shared() throws std::system_error
\* (resource_deadlock_would_occur), which the callback and the outer
\* method let through, or, where both the outer and the inner method take
\* the mutex shared, the thread is let in as one more reader.
relock(t) ==
    /\ pc[t] = "relock"
    /\ \/ /\ pc' = [pc EXCEPT ![t] = "stuck"]
          /\ UNCHANGED <<slots, mutex, trace, prev, after>>
       \/ Throw(t, Fail(slots[idx[t]], <<>>))
       \/ /\ op[t].name \in SharedOps
          /\ InnerName(op[t].fn) \in SharedOps
          /\ pc' = [pc EXCEPT ![t] = "inner"]
          /\ UNCHANGED <<slots, mutex, trace, prev, after>>
    /\ UNCHANGED <<op, idx, acc, res, pre, created, HashMap_vars>>

\* The body of the inner Slot::get runs and returns to the callback; the
\* thread's other shared ownership of the mutex, which the outer method
\* took, stays.
inner_get(t) ==
    /\ pc[t] = "inner"
    /\ InnerName(op[t].fn) = "get"
    /\ pc' = [pc EXCEPT ![t] = "back"]
    /\ UNCHANGED <<slots, mutex, op, idx, acc, res, trace, pre, prev, after, created, HashMap_vars>>

\* The callback returns to the outer method, which returns true.
callback_returns(t) ==
    /\ pc[t] = "back"
    /\ Return(t, Out(slots[idx[t]], TRUE, <<>>))
    /\ UNCHANGED <<created, HashMap_vars>>

\* A callback that is invoked after the lock of the Slot method was
\* released.
callback_blocks_unlocked(t) ==
    /\ pc[t] = "crit"
    /\ op[t].name \in {"inspect", "update"}
    /\ Blocks(op[t].fn)
    /\ Has(slots[idx[t]], op[t].key)
    /\ pc' = [pc EXCEPT ![t] = "blocked"]
    /\ unlock(t)
    /\ trace' = [trace EXCEPT ![t] =
                    @ \o <<Invoked(op[t].fn, <<slots[idx[t]][op[t].key]>>)>>]
    /\ UNCHANGED <<slots, op, idx, acc, res, pre, prev, after, created, HashMap_vars>>

\* Slot::inspect or Slot::update has found the key and invokes a callback
\* that blocks: the thread stays in the callback, inside the Slot method,
\* whose lock it holds.
callback_blocks(t) ==
    /\ pc[t] = "crit"
    /\ op[t].name \in {"inspect", "update"}
    /\ Blocks(op[t].fn)
    /\ Has(slots[idx[t]], op[t].key)
    /\ pc' = [pc EXCEPT ![t] = "blocked"]
    /\ trace' = [trace EXCEPT ![t] =
                    @ \o <<Invoked(op[t].fn, <<slots[idx[t]][op[t].key]>>)>>]
    /\ UNCHANGED <<slots, mutex, op, idx, acc, res, pre, prev, after, created, HashMap_vars>>

\* auto it = map.find(key) of Slot::computeIfAbsent.
computeIfAbsent_find(t) ==
    /\ InBody(t, "computeIfAbsent")
    /\ pc' = [pc EXCEPT ![t] =
                IF Has(slots[idx[t]], op[t].key) THEN "found" ELSE "absent"]
    /\ UNCHANGED <<slots, mutex, op, idx, acc, res, trace, pre, prev, after, created, HashMap_vars>>

\* The rest of Slot::computeIfAbsent.
computeIfAbsent(t) ==
    /\ pc[t] \in {"found", "absent"}
    /\ op[t].name = "computeIfAbsent"
    /\ LET r == Slot_computeIfAbsent(slots[idx[t]], op[t].key, op[t].val,
                                     op[t].fn, pc[t] = "found")
       IN  Finish(t, r)
    /\ UNCHANGED <<created, HashMap_vars>>

forEach(t) ==
    /\ InBody(t, "forEach")
    /\ \E ord \in Orders(slots[idx[t]]) :
            LET r == Slot_forEach(slots[idx[t]], op[t].fn, ord)
            IN  IF Threw(r) THEN Throw(t, r) ELSE Loop(t, r, FALSE, "void")
    /\ UNCHANGED <<created, HashMap_vars>>

\* The facade's loop is left when Slot::forEachUntil returns false.
forEachUntil(t) ==
    /\ InBody(t, "forEachUntil")
    /\ \E ord \in Orders(slots[idx[t]]) :
            LET r == Slot_forEachUntil(slots[idx[t]], op[t].fn, ord)
            IN  IF Threw(r) THEN Throw(t, r) ELSE Loop(t, r, ~r.res, "void")
    /\ UNCHANGED <<created, HashMap_vars>>

\* A find that goes through every slot and returns the result of the last.
find_scans_on(t) ==
    /\ InBody(t, "find")
    /\ \E ord \in Orders(slots[idx[t]]) :
            LET r == Slot_find(slots[idx[t]], op[t].fn, ord)
            IN  IF Threw(r) THEN Throw(t, r) ELSE Loop(t, r, FALSE, r.res)
    /\ UNCHANGED <<created, HashMap_vars>>

\* A containsIf whose scan goes through every slot and that returns what
\* the scan of the last slot found.
containsIf_scans_on(t) ==
    /\ InBody(t, "containsIf")
    /\ \E ord \in Orders(slots[idx[t]]) :
            LET r == Slot_forEachUntil(slots[idx[t]], op[t].fn, ord)
            IN  IF Threw(r) THEN Throw(t, r) ELSE Loop(t, r, FALSE, ~r.res)
    /\ UNCHANGED <<created, HashMap_vars>>

\* The facade's loop is left with the first result that has a value.
find(t) ==
    /\ InBody(t, "find")
    /\ \E ord \in Orders(slots[idx[t]]) :
            LET r == Slot_find(slots[idx[t]], op[t].fn, ord)
            IN  IF Threw(r) THEN Throw(t, r)
                ELSE Loop(t, r, r.res # nullopt, r.res)
    /\ UNCHANGED <<created, HashMap_vars>>

\* The facade's forEachUntil with a callback that sets found and stops the
\* scan when the predicate accepts an entry.
containsIf(t) ==
    /\ InBody(t, "containsIf")
    /\ \E ord \in Orders(slots[idx[t]]) :
            LET r == Slot_forEachUntil(slots[idx[t]], op[t].fn, ord)
            IN  IF Threw(r) THEN Throw(t, r) ELSE Loop(t, r, ~r.res, ~r.res)
    /\ UNCHANGED <<created, HashMap_vars>>

clear(t) ==
    /\ InBody(t, "clear")
    /\ Loop(t, Slot_clear(slots[idx[t]]), FALSE, "void")
    /\ UNCHANGED <<created, HashMap_vars>>

\* A per-slot hint that is rounded down.
perSlotHint_floor(hint) == hint \div SLOT_SIZE

\* The hint Slot::reserve is called with.
perSlotHint(hint) == (hint \div SLOT_SIZE) + (IF hint % SLOT_SIZE > 0 THEN 1 ELSE 0)

reserve(t) ==
    /\ InBody(t, "reserve")
    /\ Loop(t, Slot_reserve(slots[idx[t]], perSlotHint(op[t].val)), FALSE, "void")
    /\ UNCHANGED <<created, HashMap_vars>>

(***************************************************************************)
(* Spec: one thread makes any keyed calls, one after the other.            *)
(***************************************************************************)
SeqCalls ==
    GetCalls \cup ContainsCalls \cup RemoveCalls \cup AddCalls
    \cup TryAddCalls \cup MergeCalls \cup Inspect2Calls

Next ==
    \E t \in {1} :
        \/ \E o \in SeqCalls : Call(t, o)
        \/ lock(t)
        \/ get(t)
        \/ contains(t)
        \/ add(t)
        \/ tryAdd(t)
        \/ remove(t)
        \/ merge(t)
        \/ inspect2(t)

Spec == Init /\ [][Next]_vars

(***************************************************************************)
(* SpecRoundTrip: one thread makes add, remove, get and contains calls,    *)
(* each remembered by the call that follows it.                            *)
(***************************************************************************)
RoundTripCalls == GetCalls \cup ContainsCalls \cup RemoveCalls \cup AddCalls

NextRoundTrip ==
    \E t \in {1} :
        \/ \E o \in RoundTripCalls : CallNext(t, o)
        \/ lock(t)
        \/ get(t)
        \/ contains(t)
        \/ add(t)
        \/ remove(t)

SpecRoundTrip == Init /\ [][NextRoundTrip]_vars

(***************************************************************************)
(* SpecScan: one thread fills the map with add and makes whole-map calls.  *)
(***************************************************************************)
ScanCalls ==
    {CallOf("add", k, v, "none") : k \in ScanKeys, v \in Vals}
    \cup UpdateIfCalls \cup RemoveIfCalls \cup SizeCalls

NextScan ==
    \E t \in {1} :
        \/ \E o \in ScanCalls : Call(t, o)
        \/ lock(t)
        \/ add(t)
        \/ updateIf(t)
        \/ removeIf(t)
        \/ size(t)

SpecScan == Init /\ [][NextScan]_vars

(***************************************************************************)
(* SpecCompute: every thread makes one computeIfAbsent2 call, all at once. *)
(***************************************************************************)
NextCompute ==
    \E t \in Threads :
        \/ \E o \in ComputeIfAbsent2Calls : CallOnce(t, o)
        \/ lock(t)
        \/ computeIfAbsent2_find(t)
        \/ computeIfAbsent2(t)

SpecCompute == Init /\ [][NextCompute]_vars

(***************************************************************************)
(* SpecSize: thread 1 calls size() while every other thread makes one      *)
(* inserting call.                                                         *)
(***************************************************************************)
NextSize ==
    \/ \E o \in SizeCalls : CallOnce(1, o)
    \/ \E t \in Threads \ {1} : \E o \in AddCalls \cup TryAddCalls : CallOnce(t, o)
    \/ \E t \in Threads :
        \/ lock(t)
        \/ add(t)
        \/ tryAdd(t)
        \/ size(t)

SpecSize == Init /\ [][NextSize]_vars

(***************************************************************************)
(* SpecLocks: thread 1 makes one call of any method, on or around key 1,   *)
(* while every other thread makes one call that reads or writes a slot or  *)
(* all of them.                                                            *)
(***************************************************************************)
LockCalls ==
    {CallOf(n, 1, 1, "none") :
        n \in {"get", "getOrDefault", "contains", "remove", "add", "tryAdd",
               "computeIfAbsent2"}}
    \cup {CallOf("inspect", 1, 0, "void"), CallOf("inspect2", 1, 0, "void"),
          CallOf("update", 1, 0, "keep"), CallOf("merge", 1, 1, "next"),
          CallOf("computeIfAbsent", 1, 1, "keep")}
    \cup {CallOf("updateIf", 0, 0, "never"), CallOf("removeIf", 0, 0, "never"),
          CallOf("size", 0, 0, "none"), CallOf("forEach", 0, 0, "void"),
          CallOf("forEachUntil", 0, 0, "always"), CallOf("find", 0, 0, "never"),
          CallOf("containsIf", 0, 0, "never"), CallOf("clear", 0, 0, "none"),
          CallOf("reserve", 0, 1, "none")}

ContendingCalls ==
    {CallOf("get", 1, 0, "none"), CallOf("add", 1, 1, "none"),
     CallOf("size", 0, 0, "none"), CallOf("clear", 0, 0, "none")}

NextLocks ==
    \/ \E o \in LockCalls : CallOnce(1, o)
    \/ \E t \in Threads \ {1} : \E o \in ContendingCalls : CallOnce(t, o)
    \/ \E t \in Threads :
        \/ lock(t)
        \/ get(t)
        \/ getOrDefault(t)
        \/ contains(t)
        \/ inspect(t)
        \/ inspect2(t)
        \/ add(t)
        \/ tryAdd(t)
        \/ remove(t)
        \/ update(t)
        \/ merge(t)
        \/ computeIfAbsent_find(t)
        \/ computeIfAbsent(t)
        \/ computeIfAbsent2_find(t)
        \/ computeIfAbsent2(t)
        \/ updateIf(t)
        \/ removeIf(t)
        \/ size(t)
        \/ forEach(t)
        \/ forEachUntil(t)
        \/ find(t)
        \/ containsIf(t)
        \/ clear(t)
        \/ reserve(t)

SpecLocks == Init /\ [][NextLocks]_vars

(***************************************************************************)
(* SpecLive: every thread makes one call, of a method that writes a slot   *)
(* (merge), reads every slot (forEach) or writes every slot (clear), and a *)
(* thread that can take a step is not passed over for ever: a lock         *)
(* constructor returns if the mutex stays available, a body runs to its    *)
(* return.  These methods return void, so that res is "void" throughout.   *)
(***************************************************************************)
LiveCalls ==
    {CallOf("merge", 1, 1, "next"), CallOf("forEach", 0, 0, "void"),
     CallOf("clear", 0, 0, "none")}

StepLive(t) ==
    \/ lock(t)
    \/ merge(t)
    \/ forEach(t)
    \/ clear(t)

NextLive ==
    \E t \in Threads :
        \/ \E o \in LiveCalls : CallOnce(t, o)
        \/ StepLive(t)

\* What every step of StepLive changes.
position == <<pc, idx, mutex>>

SpecLive ==
    Init /\ [][NextLive]_vars /\ \A t \in Threads : WF_position(StepLive(t))

(***************************************************************************)
(* SpecReenter: one thread fills the map with add and calls inspect and    *)
(* update with callbacks that call get or add on the same map for the key  *)
(* they were invoked on.                                                   *)
(***************************************************************************)
ReenterCalls ==
    AddCalls
    \cup {CallOf(n, k, 0, f) : n \in {"inspect", "update"}, k \in Keys, f \in ReenterFns}

NextReenter ==
    \E t \in {1} :
        \/ \E o \in ReenterCalls : Call(t, o)
        \/ lock(t)
        \/ add(t)
        \/ inspect(t)
        \/ update(t)
        \/ callback_reenters(t)
        \/ relock(t)
        \/ inner_get(t)
        \/ callback_returns(t)

SpecReenter == Init /\ [][NextReenter]_vars

(***************************************************************************)
(* SpecThrow: one thread fills slots[0] and slots[1] with add and calls    *)
(* update, merge, inspect and forEachUntil with callbacks that return and  *)
(* callbacks that throw, each call remembered by the call that follows it. *)
(***************************************************************************)
ThrowKeys == {1, 3}

ThrowCalls ==
    {CallOf("add", k, v, "none") : k \in ThrowKeys, v \in Vals}
    \cup {CallOf("update", k, 0, f) : k \in ThrowKeys, f \in {"keep"} \cup ThrowingFns}
    \cup {CallOf("merge", k, v, f) :
            k \in ThrowKeys, v \in Vals, f \in {"next"} \cup ThrowingFns}
    \cup {CallOf("inspect", k, 0, f) : k \in ThrowKeys, f \in {"void"} \cup ThrowingFns}
    \cup {CallOf("forEachUntil", 0, 0, f) : f \in {"always", "never"} \cup ThrowingFns}

NextThrow ==
    \E t \in {1} :
        \/ \E o \in ThrowCalls : CallNext(t, o)
        \/ lock(t)
        \/ add(t)
        \/ update(t)
        \/ merge(t)
        \/ inspect(t)
        \/ forEachUntil(t)

SpecThrow == Init /\ [][NextThrow]_vars

(***************************************************************************)
(* SpecAccess: one thread makes keyed calls that look a key up, with and   *)
(* without a callback, one after the other; the callbacks of inspect and   *)
(* update return or throw.                                                 *)
(***************************************************************************)
AccessCalls ==
    AddCalls \cup RemoveCalls \cup GetCalls \cup ContainsCalls
    \cup GetOrDefaultCalls \cup InspectCalls \cup UpdateCalls
    \cup ComputeIfAbsentCalls
    \cup {CallOf(n, k, 0, f) : n \in {"inspect", "update"}, k \in Keys, f \in ThrowingFns}

NextAccess ==
    \E t \in {1} :
        \/ \E o \in AccessCalls : Call(t, o)
        \/ lock(t)
        \/ add(t)
        \/ remove(t)
        \/ get(t)
        \/ contains(t)
        \/ getOrDefault(t)
        \/ inspect(t)
        \/ update(t)
        \/ computeIfAbsent_find(t)
        \/ computeIfAbsent(t)

SpecAccess == Init /\ [][NextAccess]_vars

(***************************************************************************)
(* SpecSearch: one thread fills the map with add and searches it with      *)
(* find, forEachUntil and containsIf.                                      *)
(***************************************************************************)
SearchCalls == AddCalls \cup FindCalls \cup ForEachUntilCalls \cup ContainsIfCalls

NextSearch ==
    \E t \in {1} :
        \/ \E o \in SearchCalls : Call(t, o)
        \/ lock(t)
        \/ add(t)
        \/ find(t)
        \/ forEachUntil(t)
        \/ containsIf(t)

SpecSearch == Init /\ [][NextSearch]_vars

(***************************************************************************)
(* SpecReserve: one thread adds entries and calls reserve with any hint.   *)
(***************************************************************************)
HintCalls == {CallOf("reserve", 0, h, "none") : h \in 0..MaxHint}

NextReserve ==
    \E t \in {1} :
        \/ \E o \in AddCalls \cup HintCalls : Call(t, o)
        \/ lock(t)
        \/ add(t)
        \/ reserve(t)

SpecReserve == Init /\ [][NextReserve]_vars

(***************************************************************************)
(* SpecTorn: thread 2 removes an entry and adds one, one call after the    *)
(* other, and adds only to an empty map, so that the map never holds two   *)
(* entries; thread 1 makes one size() or forEach call.                     *)
(***************************************************************************)
TornKeys == {1, 3}

TornAdds == {CallOf("add", k, 1, "none") : k \in TornKeys}

TornRemoves == {CallOf("remove", k, 0, "none") : k \in TornKeys}

NextTorn ==
    \/ \E o \in TornAdds : (\A i \in SlotIds : slots[i] = EmptyMap) /\ Call(2, o)
    \/ \E o \in TornRemoves : Call(2, o)
    \/ \E o \in SizeCalls \cup ForEachCalls : CallOnce(1, o)
    \/ \E t \in {1, 2} :
        \/ lock(t)
        \/ add(t)
        \/ remove(t)
        \/ size(t)
        \/ forEach(t)

SpecTorn == Init /\ [][NextTorn]_vars

(***************************************************************************)
(* SpecBlock: thread 1 adds key 1 and calls inspect and update on it with  *)
(* a callback that blocks; every other thread reads and writes key 1,      *)
(* which is in the same slot, and key 2, which is in another.              *)
(***************************************************************************)
BlockCalls ==
    {CallOf("add", 1, 1, "none")}
    \cup {CallOf(n, 1, 0, f) : n \in {"inspect", "update"}, f \in BlockingFns}

BesideCalls ==
    {CallOf("get", k, 0, "none") : k \in {1, 2}}
    \cup {CallOf("add", k, 1, "none") : k \in {1, 2}}

NextBlock ==
    \/ \E o \in BlockCalls : Call(1, o)
    \/ \E t \in Threads \ {1} : \E o \in BesideCalls : Call(t, o)
    \/ \E t \in Threads :
        \/ lock(t)
        \/ add(t)
        \/ get(t)
        \/ inspect(t)
        \/ update(t)
        \/ callback_blocks(t)

SpecBlock == Init /\ [][NextBlock]_vars

(***************************************************************************)
(* SpecKeyed: one thread calls every method that takes a key, one call     *)
(* after the other, on the keys 1, 3 and 4, of which 3 and 4 are in the    *)
(* same slot.                                                              *)
(***************************************************************************)
KeyedKeys == {1, 3, 4}

KeyedCalls ==
    {CallOf(n, k, 0, "none") : n \in {"get", "contains", "remove"}, k \in KeyedKeys}
    \cup {CallOf(n, k, 1, "none") :
            n \in {"add", "tryAdd", "getOrDefault"}, k \in KeyedKeys}
    \cup {CallOf("computeIfAbsent2", 1, 1, "none")}
    \cup {CallOf("inspect", k, 0, "void") : k \in KeyedKeys}
    \cup {CallOf("inspect2", k, 0, "plain") : k \in KeyedKeys}
    \cup {CallOf("update", k, 0, "inc") : k \in KeyedKeys}
    \cup {CallOf("computeIfAbsent", k, 1, "keep") : k \in KeyedKeys}
    \cup {CallOf("merge", k, 1, f) : k \in KeyedKeys, f \in {"sum", "empty"}}

NextKeyed ==
    \E t \in {1} :
        \/ \E o \in KeyedCalls : Call(t, o)
        \/ lock(t)
        \/ get(t)
        \/ getOrDefault(t)
        \/ contains(t)
        \/ inspect(t)
        \/ inspect2(t)
        \/ update(t)
        \/ computeIfAbsent_find(t)
        \/ computeIfAbsent(t)
        \/ computeIfAbsent2_find(t)
        \/ computeIfAbsent2(t)
        \/ merge(t)
        \/ remove(t)
        \/ add(t)
        \/ tryAdd(t)

SpecKeyed == Init /\ [][NextKeyed]_vars

(***************************************************************************)
(* SpecPlace: one thread makes calls that insert, replace and erase        *)
(* entries, by key and over the whole map, one call after the other.       *)
(***************************************************************************)
PlaceCalls ==
    {CallOf("add", k, 1, "none") : k \in KeyedKeys}
    \cup {CallOf("tryAdd", k, 2, "none") : k \in KeyedKeys}
    \cup {CallOf("merge", k, 1, f) : k \in KeyedKeys, f \in {"sum", "empty"}}
    \cup {CallOf("computeIfAbsent", k, 1, "keep") : k \in KeyedKeys}
    \cup {CallOf("remove", k, 0, "none") : k \in KeyedKeys}
    \cup {CallOf("removeIf", 0, 0, "evenKey"), CallOf("updateIf", 0, 0, "inc"),
          CallOf("clear", 0, 0, "none")}

NextPlace ==
    \E t \in {1} :
        \/ \E o \in PlaceCalls : Call(t, o)
        \/ lock(t)
        \/ add(t)
        \/ tryAdd(t)
        \/ merge(t)
        \/ computeIfAbsent_find(t)
        \/ computeIfAbsent(t)
        \/ remove(t)
        \/ removeIf(t)
        \/ updateIf(t)
        \/ clear(t)

SpecPlace == Init /\ [][NextPlace]_vars

(***************************************************************************)
(* SpecRollback: one thread fills the map with add and calls updateIf with *)
(* a predicate that increments the values of odd keys and throws on an     *)
(* even key.                                                               *)
(***************************************************************************)
RollbackCalls ==
    {CallOf("add", k, 1, "none") : k \in Keys}
    \cup {CallOf("remove", k, 0, "none") : k \in Keys}
    \cup {CallOf("updateIf", 0, 0, f) : f \in FailingUpdateFns}

NextRollback ==
    \E t \in {1} :
        \/ \E o \in RollbackCalls : Call(t, o)
        \/ lock(t)
        \/ add(t)
        \/ remove(t)
        \/ updateIf(t)

SpecRollback == Init /\ [][NextRollback]_vars

(***************************************************************************)
(* SpecFail: one thread adds and removes entries and calls computeIfAbsent *)
(* and computeIfAbsent2 with functions that return and functions that      *)
(* throw.                                                                  *)
(***************************************************************************)
FailKeys == {1, 3}

FailCalls ==
    {CallOf("add", k, 2, "none") : k \in FailKeys}
    \cup {CallOf("remove", k, 0, "none") : k \in FailKeys}
    \cup {CallOf("computeIfAbsent", k, 1, f) :
            k \in FailKeys, f \in {"keep"} \cup ThrowingFns \cup FailingCreateFns}
    \cup {CallOf("computeIfAbsent2", k, 1, f) :
            k \in FailKeys, f \in {"none"} \cup FailingCreateFns}

NextFail ==
    \E t \in {1} :
        \/ \E o \in FailCalls : Call(t, o)
        \/ lock(t)
        \/ add(t)
        \/ remove(t)
        \/ computeIfAbsent_find(t)
        \/ computeIfAbsent(t)
        \/ computeIfAbsent2_find(t)
        \/ computeIfAbsent2(t)

SpecFail == Init /\ [][NextFail]_vars

(***************************************************************************)
(* SpecMerge: thread 1 may add keys 1 and 3 before any merge is called; then *)
(* every thread makes one merge call on key 1 with the remapping function  *)
(* that adds, all at once.                                                 *)
(***************************************************************************)
MergeKeys == {1}

\* The one key the merge calls are made on.
MergeKey == CHOOSE k \in MergeKeys : TRUE

SumCalls == {CallOf("merge", MergeKey, d, "sum") : d \in Vals}

NextMerge ==
    \/ \E o \in {CallOf("add", k, v, "none") : k \in {MergeKey, 3}, v \in Vals} :
            /\ \A u \in Threads \ {1} : pc[u] = "idle"
            /\ pc[1] = "idle" \/ (pc[1] = "done" /\ ~Has(slots[slotTable[o.key]], o.key))
            /\ Call(1, o)
    \/ \E t \in Threads : \E o \in SumCalls :
            /\ pc[t] = "idle" \/ (pc[t] = "done" /\ op[t].name = "add")
            /\ pc[1] \in {"idle", "done", "found", "absent"} \/ op[1].name = "merge"
            /\ Call(t, o)
    \/ \E t \in Threads :
        \/ lock(t)
        \/ add(t)
        \/ merge_find(t)
        \/ merge_remap(t)

SpecMerge == Init /\ [][NextMerge]_vars

(***************************************************************************)
(* SpecRace: either every thread makes one tryAdd call on key 1, which is  *)
(* absent, or thread 1 adds key 1 first and then every thread makes one    *)
(* remove call on it; the calls of the threads run at once.                *)
(***************************************************************************)
RaceKeys == {1}

\* The one key the calls are made on.
RaceKey == CHOOSE k \in RaceKeys : TRUE

Racing(names) == \E u \in Threads : pc[u] # "idle" /\ op[u].name \in names

NextRace ==
    \/ \E o \in {CallOf("add", RaceKey, v, "none") : v \in Vals} :
            (\A u \in Threads : pc[u] = "idle") /\ Call(1, o)
    \/ \E t \in Threads : \E o \in {CallOf("tryAdd", RaceKey, v, "none") : v \in Vals} :
            ~Racing({"add", "remove"}) /\ CallOnce(t, o)
    \/ \E t \in Threads :
            /\ pc[t] = "idle" \/ (pc[t] = "done" /\ op[t].name = "add")
            /\ (pc[1] = "done" /\ op[1].name = "add") \/ Racing({"remove"})
            /\ Call(t, CallOf("remove", RaceKey, 0, "none"))
    \/ \E t \in Threads :
        \/ lock(t)
        \/ add(t)
        \/ tryAdd(t)
        \/ remove(t)

SpecRace == Init /\ [][NextRace]_vars

(***************************************************************************)
(* SpecVisit: thread 1 adds keys 1, 3 and 4 and then calls forEach once;   *)
(* while that call runs, every other thread may make one call that adds a  *)
(* key with another value or removes one.                                  *)
(***************************************************************************)
VisitKeys == {1, 3, 4}

VisitAdds == {CallOf("add", k, 1, "none") : k \in VisitKeys}

VisitWrites == {CallOf("add", k, 2, "none") : k \in VisitKeys}

VisitRemoves == {CallOf("remove", k, 0, "none") : k \in VisitKeys}

NextVisit ==
    \/ \E o \in VisitAdds \cup ForEachCalls :
            op[1].name # "forEach" /\ Call(1, o)
    \/ \E t \in Threads \ {1} : \E o \in VisitWrites \cup VisitRemoves :
            /\ op[1].name = "forEach"
            /\ pc[1] \in {"lock", "crit"}
            /\ CallOnce(t, o)
    \/ \E t \in Threads :
        \/ lock(t)
        \/ add(t)
        \/ remove(t)
        \/ forEach(t)

SpecVisit == Init /\ [][NextVisit]_vars

(***************************************************************************)
(* SpecFound: thread 1 adds keys 1, 3 and 4 and then calls containsIf      *)
(* once; from then on nothing is written, and thread 2 calls find once.    *)
(***************************************************************************)
FoundKeys == {1, 3, 4}

FoundAdds == {CallOf("add", k, v, "none") : k \in FoundKeys, v \in Vals}

NextFound ==
    \/ \E o \in FoundAdds \cup ContainsIfCalls :
            op[1].name # "containsIf" /\ Call(1, o)
    \/ \E o \in FindCalls :
            op[1].name = "containsIf" /\ CallOnce(2, o)
    \/ \E t \in {1, 2} :
        \/ lock(t)
        \/ add(t)
        \/ containsIf(t)
        \/ find(t)

SpecFound == Init /\ [][NextFound]_vars

(***************************************************************************)
(* SpecClear: thread 1 adds keys 1, 2 and 3, calls clear once and may call *)
(* size after it; while the clear call runs, every other thread may make   *)
(* one add call.                                                           *)
(***************************************************************************)
ClearKeys == {1, 2, 3}

ClearAdds == {CallOf("add", k, 1, "none") : k \in ClearKeys}

ClearWrites == {CallOf("add", k, 2, "none") : k \in ClearKeys}

NextClear ==
    \/ \E o \in ClearAdds \cup ClearCalls :
            op[1].name \notin {"clear", "size"} /\ Call(1, o)
    \/ \E o \in SizeCalls :
            pc[1] = "done" /\ op[1].name = "clear" /\ Call(1, o)
    \/ \E t \in Threads \ {1} : \E o \in ClearWrites :
            /\ op[1].name = "clear"
            /\ pc[1] \in {"lock", "crit"}
            /\ CallOnce(t, o)
    \/ \E t \in Threads :
        \/ lock(t)
        \/ add(t)
        \/ clear(t)
        \/ size(t)

SpecClear == Init /\ [][NextClear]_vars

(***************************************************************************)
(* SpecTwin: one thread applies the same sequence of get, add, remove,     *)
(* contains, size and clear calls to an older HashMap and to a HashMap5,   *)
(* both empty at first.  Keys 3 and 4 share a slot in HashMap5 and have    *)
(* each their own in HashMap.                                              *)
(***************************************************************************)
TwinKeys == {1, 3, 4}

TwinCalls ==
    {CallOf(n, k, 0, "none") : n \in {"get", "remove", "contains"}, k \in TwinKeys}
    \cup {CallOf("add", k, v, "none") : k \in TwinKeys, v \in Vals}
    \cup SizeCalls
    \cup ClearCalls

NextTwin ==
    \E t \in {1} :
        \/ \E o \in TwinCalls : CallBoth(t, o)
        \/ lock(t)
        \/ get(t)
        \/ add(t)
        \/ remove(t)
        \/ contains(t)
        \/ size(t)
        \/ clear(t)

SpecTwin == Init /\ [][NextTwin]_vars

(***************************************************************************)
(* SpecQuiet: thread 1 adds and removes entries, one call after the other, *)
(* and every other thread makes one size() call; no size() call is begun   *)
(* while an adding or removing call is in progress, and no adding or       *)
(* removing call is begun while a size() call is.                          *)
(***************************************************************************)
QuietKeys == {1, 3, 4}

QuietWrites ==
    {CallOf("add", k, 1, "none") : k \in QuietKeys}
    \cup {CallOf("remove", k, 0, "none") : k \in QuietKeys}

\* Thread t is in a call, between its entry and its return.
InCall(t) == pc[t] \notin {"idle", "done", "threw"}

\* A call of a method that changes a table is in progress.
Mutating == \E u \in Threads : InCall(u) /\ op[u].name \notin SharedOps

\* A size() call is in progress.
Sizing == \E u \in Threads : InCall(u) /\ op[u].name = "size"

NextQuiet ==
    \/ \E o \in QuietWrites : ~Sizing /\ Call(1, o)
    \/ \E t \in Threads \ {1} : \E o \in SizeCalls : ~Mutating /\ CallOnce(t, o)
    \/ \E t \in Threads :
        \/ lock(t)
        \/ add(t)
        \/ remove(t)
        \/ size(t)

SpecQuiet == Init /\ [][NextQuiet]_vars

(***************************************************************************)
(* What the claims speak of.                                               *)
(***************************************************************************)
Done(t, name) == pc[t] = "done" /\ op[t].name = name

\* The number of entries of the tables s.
RECURSIVE SizeFrom(_, _)
SizeFrom(s, i) ==
    IF i = SLOT_SIZE THEN 0 ELSE Cardinality(DOMAIN s[i]) + SizeFrom(s, i + 1)

MapSize(s) == SizeFrom(s, 0)

\* The entries of the tables s, as <<key, value>> pairs.
Entries(s) == UNION {{<<k, s[i][k]>> : k \in DOMAIN s[i]} : i \in SlotIds}

\* What get(key) and contains(key) return when called on the map as it is.
GetNow(key) == Slot_get(slots[slotTable[key]], key).res
ContainsNow(key) == Slot_contains(slots[slotTable[key]], key).res

\* The table a keyed call of thread t found.
Before(t) == pre[t][idx[t]]

(***************************************************************************)
(* C1 (SpecRoundTrip): a get(k) that runs right after add(k, v) returns v; *)
(* a get(k) that runs right after remove(k) returns empty, and a           *)
(* contains(k) that runs right after remove(k) returns false.              *)
(***************************************************************************)
C1_RoundTrip ==
    \A t \in Threads :
        /\ (Done(t, "get") /\ after[t].name = "add" /\ after[t].key = op[t].key)
                => res[t] = Some(after[t].val)
        /\ (Done(t, "get") /\ after[t].name = "remove" /\ after[t].key = op[t].key)
                => res[t] = nullopt
        /\ (Done(t, "contains") /\ after[t].name = "remove"
                /\ after[t].key = op[t].key)
                => res[t] = FALSE

\* A get(k) has returned 2 right after an add(k, 2).
C1_Witness ==
    \E t \in Threads :
        /\ Done(t, "get")
        /\ after[t] = CallOf("add", op[t].key, 2, "none")
        /\ res[t] = Some(2)

(***************************************************************************)
(* C2 (Spec): add(k, v) returns empty when k was absent and the value      *)
(* stored immediately before the call when k was present; either way v is  *)
(* stored under k afterwards, and the number of entries grows by one       *)
(* exactly when k was absent.                                              *)
(***************************************************************************)
C2_AddUpsert ==
    \A t \in Threads :
        Done(t, "add") =>
            LET k == op[t].key
            IN  /\ res[t] = (IF Has(Before(t), k) THEN Some(Before(t)[k]) ELSE nullopt)
                /\ GetNow(k) = Some(op[t].val)
                /\ MapSize(slots) =
                        MapSize(pre[t]) + (IF Has(Before(t), k) THEN 0 ELSE 1)

\* An add(k, 2) on a map that held 1 under k has returned 1.
C2_Witness ==
    \E t \in Threads :
        /\ Done(t, "add")
        /\ op[t].val = 2
        /\ Has(Before(t), op[t].key)
        /\ Before(t)[op[t].key] = 1
        /\ res[t] = Some(1)
        /\ MapSize(slots) = MapSize(pre[t])

(***************************************************************************)
(* C3 (Spec): tryAdd(k, v) on a map without k returns true and stores v;   *)
(* on a map that holds k it returns false and leaves every table, and so   *)
(* the stored value and the size, as it was.                               *)
(***************************************************************************)
C3_TryAdd ==
    \A t \in Threads :
        Done(t, "tryAdd") =>
            LET k == op[t].key
            IN  IF Has(Before(t), k)
                THEN res[t] = FALSE /\ slots = pre[t]
                ELSE /\ res[t] = TRUE
                     /\ GetNow(k) = Some(op[t].val)
                     /\ MapSize(slots) = MapSize(pre[t]) + 1

\* A tryAdd(k, 2) on a map that held 1 under k has returned false.
C3_Witness ==
    \E t \in Threads :
        /\ Done(t, "tryAdd")
        /\ op[t].val = 2
        /\ Has(Before(t), op[t].key)
        /\ Before(t)[op[t].key] = 1
        /\ res[t] = FALSE
        /\ GetNow(op[t].key) = Some(1)

(***************************************************************************)
(* C4 (SpecCompute): when threads call computeIfAbsent2(k, createFn) at    *)
(* once on an empty map, createFn is invoked at most once for k, exactly   *)
(* once as soon as a call for k has returned, and every call that has      *)
(* returned has returned the value stored under k.                         *)
(***************************************************************************)
C4_CreateOnce ==
    /\ \A k \in Keys : created[k] <= 1
    /\ \A t \in Threads :
            Done(t, "computeIfAbsent2") =>
                /\ created[op[t].key] = 1
                /\ GetNow(op[t].key) # nullopt
                /\ res[t] = GetNow(op[t].key)

\* Two threads have returned from computeIfAbsent2 on the same key, their
\* create functions returning different values.
C4_Witness ==
    \E t, u \in Threads :
        /\ t # u
        /\ Done(t, "computeIfAbsent2")
        /\ Done(u, "computeIfAbsent2")
        /\ op[t].key = op[u].key
        /\ op[t].val # op[u].val
        /\ res[t] = res[u]
        /\ trace[u] = <<>>

(***************************************************************************)
(* C5 (Spec): merge(k, v, remapFn) on a present key calls                  *)
(* remapFn(current, v) exactly once; if it returns empty, contains(k) is   *)
(* false afterwards, and if it returns w, get(k) returns w afterwards.     *)
(***************************************************************************)
C5_MergePresent ==
    \A t \in Threads :
        (Done(t, "merge") /\ Has(Before(t), op[t].key)) =>
            LET k == op[t].key
                result == Remap(op[t].fn, Before(t)[k], op[t].val)
            IN  /\ trace[t] = <<Invoked(op[t].fn, <<Before(t)[k], op[t].val>>)>>
                /\ IF result = nullopt
                   THEN ContainsNow(k) = FALSE /\ GetNow(k) = nullopt
                   ELSE ContainsNow(k) = TRUE /\ GetNow(k) = result

\* A merge on a present key whose remapping function returned empty has
\* returned.
C5_Witness ==
    \E t \in Threads :
        /\ Done(t, "merge")
        /\ op[t].fn = "empty"
        /\ Has(Before(t), op[t].key)
        /\ Len(trace[t]) = 1
        /\ ContainsNow(op[t].key) = FALSE

(***************************************************************************)
(* C6 (Spec): merge(k, newValue, remapFn) on an absent key does not invoke *)
(* remapFn and stores newValue under k, whatever remapFn is.               *)
(***************************************************************************)
C6_MergeAbsent ==
    \A t \in Threads :
        (Done(t, "merge") /\ ~Has(Before(t), op[t].key)) =>
            /\ trace[t] = <<>>
            /\ GetNow(op[t].key) = Some(op[t].val)

\* A merge on an absent key, with a remapping function that would have
\* returned empty, has returned.
C6_Witness ==
    \E t \in Threads :
        /\ Done(t, "merge")
        /\ op[t].fn = "empty"
        /\ ~Has(Before(t), op[t].key)
        /\ GetNow(op[t].key) = Some(op[t].val)

(***************************************************************************)
(* C7 (Spec): inspect2 with a callback returning a plain R or an           *)
(* optional<R> returns a single-layer optional<R>: on a present key the    *)
(* plain R wrapped once, or the callback's optional<R> unchanged, empty or *)
(* not, after one invocation; on an absent key an empty optional<R>        *)
(* without invoking the callback.                                          *)
(***************************************************************************)
C7_Inspect2 ==
    \A t \in Threads :
        (Done(t, "inspect2") /\ op[t].fn \in {"plain", "optional"}) =>
            LET k == op[t].key
            IN  /\ res[t].layers = 1
                /\ IF Has(Before(t), k)
                   THEN /\ trace[t] = <<Invoked(op[t].fn, <<Before(t)[k]>>)>>
                        /\ op[t].fn = "plain" =>
                                res[t] = OptR(TRUE, PlainResult(Before(t)[k]))
                        /\ op[t].fn = "optional" =>
                                res[t] = OptionalResult(Before(t)[k])
                   ELSE /\ trace[t] = <<>>
                        /\ res[t] = OptR(FALSE, 0)

\* An inspect2 whose callback returned a non-empty optional<R> has
\* returned.
C7_Witness ==
    \E t \in Threads :
        /\ Done(t, "inspect2")
        /\ op[t].fn = "optional"
        /\ Has(Before(t), op[t].key)
        /\ res[t] = OptR(TRUE, 20)

(***************************************************************************)
(* C8 (SpecSize): a size() that runs while other threads insert returns at *)
(* least the number of entries the map had when the call began and at most *)
(* the number it has when the call returns.                                *)
(***************************************************************************)
C8_SizeBetween ==
    \A t \in Threads :
        Done(t, "size") =>
            /\ MapSize(pre[t]) <= res[t]
            /\ res[t] <= MapSize(slots)

\* A size() that began on the empty map has returned 0 although an entry
\* was inserted before it returned.
C8_Witness ==
    \E t \in Threads :
        /\ Done(t, "size")
        /\ MapSize(pre[t]) = 0
        /\ res[t] = 0
        /\ MapSize(slots) = 1

(***************************************************************************)
(* C9 (SpecScan): removeIf(predicate) removes exactly the entries the      *)
(* predicate accepts, leaves the others as they were and returns how many  *)
(* it removed, so that the size afterwards is the size before minus the    *)
(* returned count, and size() returns the number of entries; with 4 slots  *)
(* and keys 1..5, removeIf(key is even) returns 2 and leaves keys 1, 3, 5. *)
(***************************************************************************)
C9_RemoveIf ==
    \A t \in Threads :
        /\ Done(t, "removeIf") =>
            LET gone == {e \in Entries(pre[t]) : Search(op[t].fn, e[1], e[2])}
            IN  /\ \A i \in SlotIds :
                        slots[i] = [k \in {x \in DOMAIN pre[t][i] :
                                            <<x, pre[t][i][x]>> \notin gone}
                                        |-> pre[t][i][k]]
                /\ res[t] = Cardinality(gone)
                /\ MapSize(slots) = MapSize(pre[t]) - res[t]
                /\ (/\ SLOT_SIZE = 4
                    /\ op[t].fn = "evenKey"
                    /\ {e[1] : e \in Entries(pre[t])} = 1..5) =>
                        /\ res[t] = 2
                        /\ {e[1] : e \in Entries(slots)} = {1, 3, 5}
                        /\ MapSize(slots) = 3
        /\ Done(t, "size") => res[t] = MapSize(slots)

\* removeIf(key is even) on a map holding keys 1..5 has returned 2.
C9_Witness ==
    \E t \in Threads :
        /\ Done(t, "removeIf")
        /\ op[t].fn = "evenKey"
        /\ {e[1] : e \in Entries(pre[t])} = 1..5
        /\ res[t] = 2
        /\ MapSize(slots) = 3

(***************************************************************************)
(* C10 (SpecScan): updateIf(predicate) invokes the predicate exactly once  *)
(* on every entry, returns the number of invocations that returned true    *)
(* and neither adds nor removes a key; on an empty map it returns 0        *)
(* without invoking the predicate.                                         *)
(***************************************************************************)
C10_UpdateIf ==
    \A t \in Threads :
        Done(t, "updateIf") =>
            /\ Len(trace[t]) = MapSize(pre[t])
            /\ {trace[t][i].args : i \in DOMAIN trace[t]} = Entries(pre[t])
            /\ res[t] = Cardinality({e \in Entries(pre[t]) :
                                        Update(op[t].fn, e[1], e[2]).ret})
            /\ \A i \in SlotIds : DOMAIN slots[i] = DOMAIN pre[t][i]
            /\ MapSize(pre[t]) = 0 =>
                    (res[t] = 0 /\ trace[t] = <<>> /\ MapSize(slots) = 0)

\* An updateIf whose predicate returned true on some entries and false on
\* others has returned.
C10_Witness ==
    \E t \in Threads :
        /\ Done(t, "updateIf")
        /\ op[t].fn = "incEvenKey"
        /\ MapSize(pre[t]) >= 3
        /\ res[t] >= 1
        /\ res[t] < MapSize(pre[t])

\* The slots whose mutex thread t holds, shared or exclusive.
Held(t) == {i \in SlotIds : mutex[i].writer = t \/ t \in mutex[i].readers}

\* Thread t is in the body of a Slot method (or in a callback it invoked).
Inside(t) ==
    pc[t] \in {"crit", "found", "absent", "relock", "inner", "back", "stuck",
              "blocked"}

\* Thread t is at a lock constructor that cannot return as things are.
Blocked(t) ==
    /\ pc[t] = "lock"
    /\ IF op[t].name \in SharedOps
       THEN mutex[idx[t]].writer # 0
       ELSE mutex[idx[t]] # Unlocked

\* Thread t is blocked at a mutex that thread u holds.
WaitsFor(t, u) == Blocked(t) /\ idx[t] \in Held(u)

(***************************************************************************)
(* C11 (SpecLocks): a thread in a call holds the mutex of at most one      *)
(* slot, the one whose Slot method it is in; at the lock of a slot, which  *)
(* is where a whole-map call is between two slots, it holds none; and      *)
(* there is no set of threads each of which is blocked at a mutex held by  *)
(* a thread of the set.                                                    *)
(***************************************************************************)
C11_OneLock ==
    /\ \A t \in Threads :
            /\ Cardinality(Held(t)) <= 1
            /\ Inside(t) => Held(t) = {idx[t]}
            /\ pc[t] = "lock" => Held(t) = {}
    /\ \A S \in (SUBSET Threads) \ {{}} :
            \E t \in S : \A u \in S : ~WaitsFor(t, u)

\* A whole-map call that has gone on from slots[0] holds the mutex of
\* slots[1], where another thread is blocked.
C11_Witness ==
    \E t, u \in Threads :
        /\ op[t].name \in WholeMapOps
        /\ pc[t] = "crit"
        /\ idx[t] = 1
        /\ Held(t) = {1}
        /\ WaitsFor(u, t)

(***************************************************************************)
(* C12 (SpecLive): with threads that make one call each, of merge, forEach *)
(* or clear, and are scheduled fairly, a thread that has come to the lock  *)
(* of a slot, at the start of its call or between two slots of a whole-map *)
(* call, does return from the call.                                        *)
(***************************************************************************)
C12_Returns == \A t \in Threads : (pc[t] = "lock") ~> (pc[t] = "done")

\* A merge is blocked at the mutex of the slot that a forEach of another
\* thread holds shared.
C12_Witness ==
    \E t, u \in Threads :
        /\ op[t].name = "merge"
        /\ op[u].name = "forEach"
        /\ pc[u] = "crit"
        /\ WaitsFor(t, u)

\* Thread t's call has invoked a callback that re-enters the map.
Reentered(t) == Reenters(op[t].fn) /\ trace[t] # <<>>

ModesAre(shared) ==
    /\ \A t \in Threads :
            Inside(t) =>
                IF op[t].name \in shared
                THEN t \in mutex[idx[t]].readers /\ mutex[idx[t]].writer = 0
                ELSE mutex[idx[t]] = [writer |-> t, readers |-> {}]
    /\ \A t, u \in Threads :
            (t # u /\ Inside(t) /\ Inside(u) /\ idx[t] = idx[u]) =>
                (op[t].name \in shared /\ op[u].name \in shared)

(***************************************************************************)
(* C14, as stated (SpecLocks): a call of get, contains, inspect, inspect2, *)
(* forEach, find or size holds the mutex of the slot it is in shared, and  *)
(* a call of any other method, getOrDefault, forEachUntil and containsIf   *)
(* among them, holds it exclusively.                                       *)
(***************************************************************************)
C14_AsListed ==
    ModesAre({"get", "contains", "inspect", "inspect2", "forEach", "find", "size"})

(***************************************************************************)
(* C14, amended (SpecLocks): a call of get, getOrDefault, contains,        *)
(* inspect, inspect2, forEach, forEachUntil, find, containsIf or size      *)
(* holds the mutex of the slot it is in shared, so that several of them    *)
(* can be in the same slot at once; a call of add, tryAdd, remove,         *)
(* removeIf, update, updateIf, merge, computeIfAbsent, computeIfAbsent2,   *)
(* clear or reserve holds it exclusively, alone in the slot.               *)
(***************************************************************************)
C14_LockModes ==
    /\ ModesAre({"get", "getOrDefault", "contains", "inspect", "inspect2",
                 "forEach", "forEachUntil", "find", "containsIf", "size"})
    /\ \A t \in Threads :
            Inside(t) =>
                op[t].name \in
                    {"get", "getOrDefault", "contains", "inspect", "inspect2",
                     "forEach", "forEachUntil", "find", "containsIf", "size",
                     "add", "tryAdd", "remove", "removeIf", "update",
                     "updateIf", "merge", "computeIfAbsent",
                     "computeIfAbsent2", "clear", "reserve"}

\* A getOrDefault and a get of another thread are in the same slot at
\* once, both holding its mutex shared.
C14_Witness ==
    \E t, u \in Threads :
        /\ InBody(t, "getOrDefault")
        /\ InBody(u, "get")
        /\ idx[t] = idx[u]
        /\ mutex[idx[t]] = [writer |-> 0, readers |-> {t, u}]

\* The last callback thread t's call invoked has thrown.
CallbackFailed(t) == trace[t] # <<>> /\ Throws(trace[t][Len(trace[t])].fn)

(***************************************************************************)
(* C15 (SpecThrow): a mutex is held only by a thread that is in a Slot     *)
(* method; a call ends with the exception reaching the caller exactly when *)
(* a callback it invoked has thrown, and with a return otherwise; and the  *)
(* thread that comes to the lock of a slot, after whatever calls have      *)
(* failed before, finds the mutex free.                                    *)
(***************************************************************************)
C15_Released ==
    \A t \in Threads :
        /\ ~Inside(t) => Held(t) = {}
        /\ pc[t] = "threw" => CallbackFailed(t)
        /\ pc[t] = "done" => ~CallbackFailed(t)
        /\ Inside(t) => ~CallbackFailed(t)
        /\ pc[t] = "lock" => mutex[idx[t]] = Unlocked

\* An update of key k has returned true right after a call for k that a
\* throwing callback ended.
C15_Witness ==
    \E t \in Threads :
        /\ Done(t, "update")
        /\ res[t] = TRUE
        /\ after[t].name = "threw"
        /\ after[t].key = op[t].key

\* The tables s with the entry of key left out.
Without(s, key) == [i \in SlotIds |-> [x \in DOMAIN s[i] \ {key} |-> s[i][x]]]

(***************************************************************************)
(* C16 (SpecAccess): computeIfAbsent(k, createFn, accessFn) invokes        *)
(* createFn once, before accessFn, if k was absent and not at all if k was *)
(* present; it invokes accessFn once, on the value createFn returned or on *)
(* the value that was stored; what accessFn leaves is stored under k, so   *)
(* that a stored value is not replaced by a created one, and no other      *)
(* entry changes; and from the lookup to the return the thread holds the   *)
(* slot's mutex exclusively.                                               *)
(***************************************************************************)
C16_ComputeIfAbsent ==
    \A t \in Threads :
        /\ Done(t, "computeIfAbsent") =>
            LET k == op[t].key
                was == Has(Before(t), k)
                stored == IF was THEN Before(t)[k] ELSE op[t].val
            IN  /\ trace[t] =
                        (IF was THEN <<>> ELSE <<Invoked("create", <<>>)>>)
                            \o <<Invoked(op[t].fn, <<stored>>)>>
                /\ GetNow(k) = Some(Mutate(op[t].fn, stored))
                /\ Without(slots, k) = Without(pre[t], k)
        /\ (op[t].name = "computeIfAbsent" /\ pc[t] \in {"crit", "found", "absent"}) =>
                /\ mutex[idx[t]] = [writer |-> t, readers |-> {}]
                /\ trace[t] = <<>>
                /\ slots = pre[t]

\* A computeIfAbsent of a key that held 1, with a createFn returning 2 and
\* an accessFn that changes nothing, has returned, and the key holds 1.
C16_Witness ==
    \E t \in Threads :
        /\ Done(t, "computeIfAbsent")
        /\ op[t].val = 2
        /\ op[t].fn = "keep"
        /\ Has(Before(t), op[t].key)
        /\ Before(t)[op[t].key] = 1
        /\ Len(trace[t]) = 1
        /\ GetNow(op[t].key) = Some(1)

(***************************************************************************)
(* C17 (SpecAccess): getOrDefault(k, found, d) leaves every table as it    *)
(* was; it returns the value stored under k with found = true if k was     *)
(* present, and d with found = false if k was absent, and then k is still  *)
(* absent and the number of entries is what it was.                        *)
(***************************************************************************)
C17_GetOrDefault ==
    \A t \in Threads :
        Done(t, "getOrDefault") =>
            LET k == op[t].key
            IN  /\ slots = pre[t]
                /\ MapSize(slots) = MapSize(pre[t])
                /\ trace[t] = <<>>
                /\ IF Has(Before(t), k)
                   THEN /\ res[t] = [value |-> Before(t)[k], found |-> TRUE]
                        /\ GetNow(k) = Some(Before(t)[k])
                   ELSE /\ res[t] = [value |-> op[t].val, found |-> FALSE]
                        /\ ContainsNow(k) = FALSE
                        /\ GetNow(k) = nullopt

\* A getOrDefault(k, found, 2) on a map that holds other keys and not k
\* has returned 2 with found = false.
C17_Witness ==
    \E t \in Threads :
        /\ Done(t, "getOrDefault")
        /\ ~Has(Before(t), op[t].key)
        /\ res[t] = [value |-> 2, found |-> FALSE]
        /\ MapSize(slots) = 2
        /\ ContainsNow(op[t].key) = FALSE

\* Thread t's call has ended, by a return or by an exception.
Ended(t) == pc[t] \in {"done", "threw"}

(***************************************************************************)
(* C18 (SpecAccess): a get, remove, contains, inspect or update of a key   *)
(* that is absent ends with a return and not with an exception, get and    *)
(* remove returning empty and contains, inspect and update returning       *)
(* false; the callback, even one that would throw, is not invoked, and     *)
(* every table is as it was, so that update has inserted nothing.          *)
(***************************************************************************)
C18_Absent ==
    \A t \in Threads :
        (/\ Ended(t)
         /\ op[t].name \in {"get", "remove", "contains", "inspect", "update"}
         /\ ~Has(Before(t), op[t].key)) =>
            /\ pc[t] = "done"
            /\ op[t].name \in {"get", "remove"} => res[t] = nullopt
            /\ op[t].name \in {"contains", "inspect", "update"} => res[t] = FALSE
            /\ trace[t] = <<>>
            /\ slots = pre[t]
            /\ ContainsNow(op[t].key) = FALSE

\* An update of an absent key with a callback that would throw has
\* returned false, on a map that holds other keys.
C18_Witness ==
    \E t \in Threads :
        /\ Done(t, "update")
        /\ op[t].fn = "throws"
        /\ ~Has(Before(t), op[t].key)
        /\ res[t] = FALSE
        /\ MapSize(slots) = 2

(***************************************************************************)
(* C19 (SpecAccess): on a key that is present, an update(k, f) that        *)
(* returns has invoked f once, on the stored value, and returned true, the *)
(* value f left is what get(k) returns from then on, and no other entry    *)
(* has changed; an inspect(k, f) that returns has invoked f once, on the   *)
(* stored value, and returned true, and every table is as it was; and      *)
(* remove(k) returns the value that was stored.                            *)
(***************************************************************************)
C19_Present ==
    \A t \in Threads :
        (pc[t] = "done" /\ Has(Before(t), op[t].key)) =>
            LET k == op[t].key
                old == Before(t)[k]
            IN  /\ op[t].name = "update" =>
                    /\ trace[t] = <<Invoked(op[t].fn, <<old>>)>>
                    /\ res[t] = TRUE
                    /\ GetNow(k) = Some(Mutate(op[t].fn, old))
                    /\ Without(slots, k) = Without(pre[t], k)
                /\ op[t].name = "inspect" =>
                    /\ trace[t] = <<Invoked(op[t].fn, <<old>>)>>
                    /\ res[t] = TRUE
                    /\ slots = pre[t]
                /\ op[t].name = "remove" =>
                    /\ res[t] = Some(old)
                    /\ Without(slots, k) = Without(pre[t], k)

\* An update of a key that held 1, with a callback that adds 1, has
\* returned true, and get returns 2.
C19_Witness ==
    \E t \in Threads :
        /\ Done(t, "update")
        /\ op[t].fn = "inc"
        /\ Has(Before(t), op[t].key)
        /\ Before(t)[op[t].key] = 1
        /\ res[t] = TRUE
        /\ GetNow(op[t].key) = Some(2)
        /\ MapSize(slots) = 2

\* finalize(hash(k)) mod SLOT_SIZE for every key of the model, by long
\* division of the 64-bit word.
modTable == [k \in AllKeys |-> UMod(finalize(hash(k)), SLOT_SIZE)]

\* 64-bit words to compare mask and remainder on: small numbers, their
\* finalized codes, which have bits set all over the word, and 2^64 - 1.
Words ==
    {U64(n) : n \in 0..MaxWord} \cup {finalize(U64(n)) : n \in 0..MaxWord}
    \cup {[i \in Bits |-> 1]}

\* For the slot counts n = 2^e, h & (n - 1) is h % n on every word above.
MaskIsMod ==
    \A h \in Words : \A e \in 0..MaxShift :
        ToNat(BitAnd(h, U64(Pow2(e) - 1))) = UMod(h, Pow2(e))

(***************************************************************************)
(* C20 (SpecAccess): the slot a keyed call is at is                        *)
(* finalize(hash(key)) mod SLOT_SIZE, an index in 0..SLOT_SIZE-1 that is   *)
(* the same in every call for the key, whatever the method and whatever    *)
(* the map holds; SLOT_SIZE is a power of two, slotFor computes the index  *)
(* as finalize(hash(key)) & (SLOT_SIZE - 1), and for the slot counts 2^e   *)
(* the masked word is the word mod 2^e.                                    *)
(***************************************************************************)
C20_Routing ==
    /\ \A t \in Threads :
            (pc[t] # "idle" /\ op[t].name \notin WholeMapOps) =>
                /\ idx[t] = modTable[op[t].key]
                /\ idx[t] \in 0..(SLOT_SIZE - 1)
                /\ SIZE_IS_POW2 =>
                        idx[t] = ToNat(BitAnd(U64(modTable[op[t].key]),
                                              U64(SLOT_SIZE - 1)))
    /\ \A i \in SlotIds : \A k \in DOMAIN slots[i] : i = modTable[k]
    /\ MaskIsMod

\* A call for key 3, whose hash code ends in the bits 11, holds the mutex
\* of slots[0], where key 4 is stored as well.
C20_Witness ==
    \E t \in Threads :
        /\ pc[t] = "crit"
        /\ op[t].key = 3
        /\ idx[t] = 0
        /\ Held(t) = {0}
        /\ Has(slots[0], 4)
(***************************************************************************)
(* C21 (SpecQuiet): while a size() call runs and no call that changes a    *)
(* table is in progress, the tables stay as they were when the call began, *)
(* and the call returns the sum of the sizes of the SLOT_SIZE tables,      *)
(* which is the number of distinct keys stored in the map.                 *)
(***************************************************************************)
C21_SizeWhenQuiet ==
    \A t \in Threads :
        /\ (InCall(t) /\ op[t].name = "size") => (~Mutating /\ slots = pre[t])
        /\ Done(t, "size") =>
            /\ res[t] = MapSize(pre[t])
            /\ res[t] = Cardinality({e[1] : e \in Entries(pre[t])})

\* A size() has returned 3 on a map that holds two keys in slots[0] and one
\* in slots[1].
C21_Witness ==
    \E t \in Threads :
        /\ Done(t, "size")
        /\ res[t] = 3
        /\ DOMAIN pre[t][0] = {3, 4}
        /\ DOMAIN pre[t][1] = {1}

\* The slot of the entry the i-th callback invocation of thread t's call
\* was made on.
SlotOf(t, i) == slotTable[trace[t][i].args[1]]

\* The entries of the map, as thread t's call found it, that the call's
\* predicate accepts.
Matches(t) == {e \in Entries(pre[t]) : Search(op[t].fn, e[1], e[2])}

\* The callback invocations of thread t's call went through the slots in
\* the order of their indices.
InSlotOrder(t) ==
    \A i, j \in DOMAIN trace[t] : i < j => SlotOf(t, i) <= SlotOf(t, j)

(***************************************************************************)
(* C22 (SpecSearch): a whole-map call comes to the slots in the order of   *)
(* their indices, from 0:  the entries it has shown its callback are those *)
(* of slots before the one it is at.  find(predicate) on a map with a      *)
(* matching entry stops at the first entry the predicate accepts, which is *)
(* in the lowest slot that holds a match, and returns its value: the       *)
(* predicate was shown no entry of a later slot and accepted none before;  *)
(* find returns empty exactly when no entry matches, after the predicate   *)
(* was shown every entry once.                                             *)
(***************************************************************************)
C22_FindFirst ==
    \A t \in Threads :
        /\ (pc[t] # "idle" /\ op[t].name \in WholeMapOps) =>
            /\ InSlotOrder(t)
            /\ InCall(t) => \A i \in DOMAIN trace[t] : SlotOf(t, i) < idx[t]
            /\ \A i \in DOMAIN trace[t] : SlotOf(t, i) <= idx[t]
        /\ Done(t, "find") =>
            LET n == Len(trace[t])
            IN  /\ (res[t] = nullopt) <=> (Matches(t) = {})
                /\ \A i \in 1..(n - 1) : trace[t][i].args \notin Matches(t)
                /\ Matches(t) = {} =>
                    /\ n = MapSize(pre[t])
                    /\ {trace[t][i].args : i \in 1..n} = Entries(pre[t])
                /\ Matches(t) # {} =>
                    /\ trace[t][n].args \in Matches(t)
                    /\ res[t] = Some(trace[t][n].args[2])
                    /\ \A e \in Matches(t) : SlotOf(t, n) <= slotTable[e[1]]
                    /\ idx[t] = SlotOf(t, n)

\* A find has passed over the entries of slots[0], which do not match,
\* returned the value of the matching entry of slots[1] and left the
\* matching entry of slots[2] unvisited.
C22_Witness ==
    \E t \in Threads :
        /\ Done(t, "find")
        /\ op[t].fn = "valIsOne"
        /\ Entries(pre[t]) = {<<3, 2>>, <<4, 2>>, <<1, 1>>, <<2, 1>>}
        /\ res[t] = Some(1)
        /\ Len(trace[t]) = 3
        /\ trace[t][3].args = <<1, 1>>

\* What Slot::forEachUntil does on the table m with the callback fn when
\* the entries come in the order ord: it has returned true exactly if it
\* showed the callback every entry and the callback returned true on none;
\* otherwise the last entry shown is the first the callback returned true
\* on.
ScansUntil(m, fn, ord) ==
    LET r == Slot_forEachUntil(m, fn, ord)
        n == Len(r.trace)
    IN  /\ r.map = m
        /\ r.res <=> (n = Len(ord) /\ \A k \in DOMAIN m : ~Search(fn, k, m[k]))
        /\ \A i \in 1..n : r.trace[i].args = <<ord[i], m[ord[i]]>>
        /\ \A i \in 1..(n - 1) : ~Search(fn, ord[i], m[ord[i]])
        /\ ~r.res => (n > 0 /\ Search(fn, ord[n], m[ord[n]]))

(***************************************************************************)
(* C23 (SpecSearch): Slot::forEachUntil returns true exactly when it has   *)
(* shown the callback every entry of its table without the callback        *)
(* returning true, and stops at the first entry on which it does; the      *)
(* facade's forEachUntil invokes the callback on no entry after the one it *)
(* returned true on, neither in that slot nor in a later one, and goes     *)
(* through every entry of every slot if the callback never returns true.   *)
(***************************************************************************)
C23_ForEachUntil ==
    /\ \A i \in SlotIds : \A fn \in SearchFns : \A ord \in Orders(slots[i]) :
            ScansUntil(slots[i], fn, ord)
    /\ \A t \in Threads :
            Done(t, "forEachUntil") =>
                LET n == Len(trace[t])
                IN  /\ InSlotOrder(t)
                    /\ \A i \in 1..(n - 1) : trace[t][i].args \notin Matches(t)
                    /\ \A i, j \in 1..n : i # j => trace[t][i].args # trace[t][j].args
                    /\ {trace[t][i].args : i \in 1..n} \subseteq Entries(pre[t])
                    /\ Matches(t) = {} =>
                        /\ {trace[t][i].args : i \in 1..n} = Entries(pre[t])
                        /\ idx[t] = SLOT_SIZE - 1
                    /\ Matches(t) # {} =>
                        /\ trace[t][n].args \in Matches(t)
                        /\ idx[t] = SlotOf(t, n)

\* A forEachUntil has gone through the two entries of slots[0], stopped at
\* the entry of slots[1], on which the callback returned true, and left the
\* entry of slots[2] unvisited.
C23_Witness ==
    \E t \in Threads :
        /\ Done(t, "forEachUntil")
        /\ op[t].fn = "valIsOne"
        /\ Entries(pre[t]) = {<<3, 2>>, <<4, 2>>, <<1, 1>>, <<2, 2>>}
        /\ Len(trace[t]) = 3
        /\ trace[t][3].args = <<1, 1>>
        /\ idx[t] = 1

(***************************************************************************)
(* C24 (SpecReserve): reserve(hint) calls map.reserve once on each of the  *)
(* SLOT_SIZE tables, every time with the same per-slot hint p, where       *)
(* p * SLOT_SIZE is at least hint and less than hint + SLOT_SIZE (so p is  *)
(* hint / SLOT_SIZE rounded up, 0 for the hint 0); the tables are left as  *)
(* they were.                                                              *)
(***************************************************************************)
C24_Reserve ==
    \A t \in Threads :
        /\ op[t].name = "reserve" =>
                 \A i \in DOMAIN trace[t] : \A j \in DOMAIN trace[t] :
                        trace[t][i] = trace[t][j]
        /\ (InCall(t) /\ op[t].name = "reserve") =>
                 (Len(trace[t]) = idx[t] /\ slots = pre[t])
        /\ Done(t, "reserve") =>
            /\ Len(trace[t]) = SLOT_SIZE
            /\ \A i \in 1..SLOT_SIZE :
                    LET p == trace[t][i].args[1]
                    IN  /\ trace[t][i].fn = "map.reserve"
                        /\ p * SLOT_SIZE >= op[t].val
                        /\ p * SLOT_SIZE < op[t].val + SLOT_SIZE
                        /\ op[t].val = 0 => p = 0
            /\ slots = pre[t]
            /\ MapSize(slots) = MapSize(pre[t])

\* reserve(5) on a map that holds two entries has handed each of the four
\* tables the hint 2.
C24_Witness ==
    \E t \in Threads :
        /\ Done(t, "reserve")
        /\ op[t].val = 5
        /\ SLOT_SIZE = 4
        /\ \A i \in 1..4 : trace[t][i].args = <<2>>
        /\ MapSize(slots) = 2

(***************************************************************************)
(* C25 (SpecTorn): a whole-map call holds the mutex of the slot it scans   *)
(* and no mutex between two slots, so that a writer can change a slot that *)
(* was scanned, and one that is still to be scanned, while the scan is on  *)
(* its way.  Here no state of the map holds more than one entry, and the   *)
(* entries a scan counts or sees are entries the map held at some time:    *)
(* a size() that returns 2, and a forEach that is shown two entries, tell  *)
(* of a map that never was.                                                *)
(***************************************************************************)
C25_LockByLock ==
    /\ MapSize(slots) <= 1
    /\ \A t \in Threads :
            (InCall(t) /\ op[t].name \in WholeMapOps) =>
                /\ pc[t] = "lock" => Held(t) = {}
                /\ pc[t] = "crit" => Held(t) = {idx[t]}
    /\ \A t \in Threads :
            /\ Done(t, "size") => res[t] \in 0..Cardinality(TornKeys)
            /\ Done(t, "forEach") =>
                    \A i \in DOMAIN trace[t] :
                        trace[t][i].args \in {<<k, 1>> : k \in TornKeys}

\* A size() has returned 2: it counted the entry of slots[0], the writer
\* removed that entry and added one to slots[1], and size() counted that
\* one too.
C25_Witness ==
    \E t \in Threads :
        /\ Done(t, "size")
        /\ res[t] = 2
        /\ MapSize(pre[t]) = 1
        /\ MapSize(slots) = 1

\* The threads in the body of a Slot method of slot i.
InsideSlot(i) == {t \in Threads : Inside(t) /\ idx[t] = i}

\* The threads that hold the mutex of slot i in write mode, in read mode.
WriteHolders(i) == {t \in Threads : mutex[i].writer = t}
ReadHolders(i) == mutex[i].readers

\* Slot i is free, or one thread is inside in write mode and none in read
\* mode, or the threads inside are all in read mode.
OneWriterOrReaders(i) ==
    /\ InsideSlot(i) = WriteHolders(i) \cup ReadHolders(i)
    /\ WriteHolders(i) \cap ReadHolders(i) = {}
    /\ \/ InsideSlot(i) = {}
       \/ Cardinality(WriteHolders(i)) = 1 /\ ReadHolders(i) = {}
       \/ WriteHolders(i) = {} /\ ReadHolders(i) # {}

\* A step that changes the table of slot i is taken by a thread that is in
\* the body of a Slot method of slot i and holds its mutex in write mode.
ChangedUnderWriteLock ==
    \A i \in SlotIds :
        slots'[i] # slots[i] =>
            \E t \in Threads :
                /\ mutex[i].writer = t
                /\ Inside(t)
                /\ idx[t] = i
                /\ op[t].name \notin SharedOps
                /\ pc'[t] # pc[t]

(***************************************************************************)
(* C26 (SpecLocks): at all times every slot is free, or has one thread     *)
(* inside that holds its mutex in write mode and no reader, or has only    *)
(* readers inside; and every step that changes a slot's table is taken by  *)
(* a thread that holds the slot's mutex in write mode.                     *)
(***************************************************************************)
C26_ShardLock ==
    /\ [](\A i \in SlotIds : OneWriterOrReaders(i))
    /\ [][ChangedUnderWriteLock]_vars

\* Two threads are inside slots[1] in read mode at once, one of them in a
\* get and the other in a method with a callback.
C26_Witness ==
    \E t, u \in Threads :
        /\ t # u
        /\ InsideSlot(1) = {t, u}
        /\ ReadHolders(1) = {t, u}
        /\ WriteHolders(1) = {}
        /\ op[t].name = "get"
        /\ op[u].name = "inspect"

\* Thread u's call returns in this step.
Completes(u) == pc[u] # "done" /\ pc'[u] = "done"

\* While a callback is blocked in a Slot method of some slot, no call of
\* another thread that is routed to that slot returns.
NoneCompletesBeside ==
    \A t \in Threads :
        pc[t] = "blocked" =>
            \A u \in Threads \ {t} : Completes(u) => idx[u] # idx[t]

\* While a callback is blocked in a Slot method of some slot, a call of
\* another thread that is routed to that slot returns only if both that
\* call and the blocked one take the mutex in read mode.
OnlyReadersCompleteBeside ==
    \A t \in Threads :
        pc[t] = "blocked" =>
            /\ pc'[t] = "blocked"
            /\ \A u \in Threads \ {t} :
                    (Completes(u) /\ idx[u] = idx[t]) =>
                        /\ op[t].name = "inspect"
                        /\ op[u].name = "get"

(***************************************************************************)
(* C27, as claimed (SpecBlock): while a callback is blocked inside inspect *)
(* or update, no other call routed to the same slot returns.               *)
(***************************************************************************)
C27_StallsAll == [][NoneCompletesBeside]_vars

(***************************************************************************)
(* C27 (SpecBlock): a thread whose callback blocks stays inside the Slot   *)
(* method and holds the mutex of that slot, and of no other, in the mode   *)
(* the method took it in.  While it is blocked inside update, no other     *)
(* call routed to that slot returns; while it is blocked inside inspect,   *)
(* no call that writes that slot returns, and reading calls may.  Calls    *)
(* routed to other slots find their mutex unheld by the blocked thread.    *)
(***************************************************************************)
C27_Stalls ==
    /\ [](\A t \in Threads :
            pc[t] = "blocked" =>
                /\ Held(t) = {idx[t]}
                /\ idx[t] = slotTable[op[t].key]
                /\ op[t].name = "update" => InsideSlot(idx[t]) = {t}
                /\ op[t].name = "inspect" => WriteHolders(idx[t]) = {})
    /\ [][OnlyReadersCompleteBeside]_vars

\* A callback is blocked inside update on key 1 while another thread is
\* at the lock of the same slot, which it cannot take, after it has made a
\* call on key 2 that has returned.
C27_Witness ==
    \E t, u \in Threads :
        /\ pc[t] = "blocked"
        /\ op[t].name = "update"
        /\ Blocked(u)
        /\ idx[u] = idx[t]
        /\ Has(slots[2], 2)

\* The facade methods that take a key.
KeyedOps ==
    {"get", "getOrDefault", "contains", "inspect", "inspect2", "update",
     "computeIfAbsent", "computeIfAbsent2", "merge", "remove", "add", "tryAdd"}

\* The values a callback of thread t's keyed call may have been handed:
\* the value the key had and the value the call brought.
OwnValues(t) ==
    LET m == Before(t)
        k == op[t].key
    IN  {op[t].val} \cup (IF Has(m, k) THEN {m[k]} ELSE {})

(***************************************************************************)
(* C28 (SpecKeyed): a call of a method that takes a key k is at the slot   *)
(* slotFor(k) from its entry to its return and holds the mutex of that     *)
(* slot inside the Slot method and no mutex of another slot at any time;   *)
(* its callbacks are handed the value of k only; and every entry of        *)
(* another key, in the same table or another, is as it was when the call   *)
(* began.                                                                  *)
(***************************************************************************)
C28_SingleKey ==
    \A t \in Threads :
        (pc[t] # "idle" /\ op[t].name \in KeyedOps) =>
            /\ idx[t] = slotTable[op[t].key]
            /\ Held(t) \subseteq {idx[t]}
            /\ Inside(t) => Held(t) = {idx[t]}
            /\ Ended(t) => Held(t) = {}
            /\ Without(slots, op[t].key) = Without(pre[t], op[t].key)
            /\ \A i \in SlotIds \ {idx[t]} : slots[i] = pre[t][i]
            /\ \A j \in DOMAIN trace[t] :
                    \A a \in DOMAIN trace[t][j].args :
                        trace[t][j].args[a] \in OwnValues(t)

\* remove(3) has returned the value of key 3 and left key 4, which is in
\* the same table, and key 1, which is in another, as they were.
C28_Witness ==
    \E t \in Threads :
        /\ Done(t, "remove")
        /\ op[t].key = 3
        /\ res[t] = Some(1)
        /\ DOMAIN pre[t][0] = {3, 4}
        /\ DOMAIN slots[0] = {4}
        /\ DOMAIN slots[1] = {1}

\* The slots whose table holds the key.
SlotsOf(key) == {i \in SlotIds : Has(slots[i], key)}

(***************************************************************************)
(* C29 (SpecPlace): at all times a key is in the table of at most one      *)
(* slot, and that slot is slotFor(key), so that the map has as many        *)
(* entries as it has keys; whatever add, tryAdd, merge, computeIfAbsent,   *)
(* remove, removeIf, updateIf and clear calls were made.                   *)
(***************************************************************************)
C29_Placement ==
    /\ \A k \in AllKeys :
            /\ Cardinality(SlotsOf(k)) <= 1
            /\ SlotsOf(k) \subseteq {slotTable[k]}
    /\ \A i \in SlotIds : DOMAIN slots[i] \subseteq {k \in AllKeys : slotTable[k] = i}
    /\ MapSize(slots) = Cardinality(UNION {DOMAIN slots[i] : i \in SlotIds})

\* A tryAdd of a key that is stored has returned false and left the three
\* keys each once in its slot.
C29_Witness ==
    \E t \in Threads :
        /\ Done(t, "tryAdd")
        /\ res[t] = FALSE
        /\ op[t].key = 4
        /\ DOMAIN slots[0] = {3, 4}
        /\ DOMAIN slots[1] = {1}
        /\ slots[0][4] = 2

\* The value of key in the tables s.
ValueIn(s, key) == s[slotTable[key]][key]

(***************************************************************************)
(* C30 (SpecRollback): when the predicate of updateIf throws, the          *)
(* exception leaves the call with the mutex of the slot released; the      *)
(* entries the predicate was shown before, in that slot and in the slots   *)
(* before it, hold the values the predicate left in them; the entry it     *)
(* threw on and the entries it was not shown are as they were; and the     *)
(* tables hold the keys they held.                                         *)
(***************************************************************************)
C30_NoRollback ==
    \A t \in Threads :
        (pc[t] = "threw" /\ op[t].name = "updateIf") =>
            LET n == Len(trace[t])
                shown == {trace[t][i].args[1] : i \in 1..(n - 1)}
            IN  /\ n >= 1
                /\ Held(t) = {}
                /\ mutex[idx[t]] = Unlocked
                /\ UpdateThrows(op[t].fn, trace[t][n].args[1], trace[t][n].args[2])
                /\ SlotOf(t, n) = idx[t]
                /\ InSlotOrder(t)
                /\ \A i \in SlotIds : DOMAIN slots[i] = DOMAIN pre[t][i]
                /\ \A i \in 1..(n - 1) :
                        LET k == trace[t][i].args[1]
                        IN  /\ trace[t][i].args[2] = ValueIn(pre[t], k)
                            /\ ~UpdateThrows(op[t].fn, k, ValueIn(pre[t], k))
                            /\ ValueIn(slots, k) =
                                    Update(op[t].fn, k, ValueIn(pre[t], k)).val
                /\ \A e \in Entries(pre[t]) :
                        e[1] \notin shown => ValueIn(slots, e[1]) = e[2]

\* The predicate has incremented the value of key 3 in slots[0] and of key
\* 1 in slots[1] and thrown on key 2 in slots[2]: the two increments are
\* stored, key 2 has its value.
C30_Witness ==
    \E t \in Threads :
        /\ pc[t] = "threw"
        /\ op[t].name = "updateIf"
        /\ Entries(pre[t]) = {<<3, 1>>, <<1, 1>>, <<2, 1>>}
        /\ Entries(slots) = {<<3, 2>>, <<1, 2>>, <<2, 1>>}
        /\ Len(trace[t]) = 3
        /\ idx[t] = 2

(***************************************************************************)
(* C31 (SpecFail): a computeIfAbsent or computeIfAbsent2 on an absent key  *)
(* that an exception ends has released the mutex of its slot.  If          *)
(* createFunction threw, no other callback was invoked and every table is  *)
(* as it was, so that the key is still absent; if createFunction returned  *)
(* and accessCallback threw, the key is stored with the value              *)
(* createFunction returned and every other entry is as it was.             *)
(***************************************************************************)
C31_FailedCompute ==
    \A t \in Threads :
        (/\ pc[t] = "threw"
         /\ op[t].name \in {"computeIfAbsent", "computeIfAbsent2"}
         /\ ~Has(Before(t), op[t].key)) =>
            /\ Held(t) = {}
            /\ mutex[idx[t]] = Unlocked
            /\ CreateThrows(op[t].fn) \/ Throws(op[t].fn)
            /\ CreateThrows(op[t].fn) =>
                /\ trace[t] = <<Invoked("create", <<>>)>>
                /\ slots = pre[t]
                /\ GetNow(op[t].key) = nullopt
            /\ Throws(op[t].fn) =>
                /\ op[t].name = "computeIfAbsent"
                /\ trace[t] = <<Invoked("create", <<>>),
                                Invoked(op[t].fn, <<op[t].val>>)>>
                /\ GetNow(op[t].key) = Some(op[t].val)
                /\ Without(slots, op[t].key) = Without(pre[t], op[t].key)

\* A computeIfAbsent on key 3, which was absent, has created the value 1
\* and been left by the exception of its accessCallback: key 3 is stored
\* with the value 1 beside key 1.
C31_Witness ==
    \E t \in Threads :
        /\ pc[t] = "threw"
        /\ op[t].name = "computeIfAbsent"
        /\ op[t].key = 3
        /\ Throws(op[t].fn)
        /\ Entries(pre[t]) = {<<1, 2>>}
        /\ Entries(slots) = {<<1, 2>>, <<3, 1>>}

\* The value key 1 had when the first merge call was made, 0 if it was
\* absent: merge only adds to it, so it is the least value a merge call
\* found when it was entered.
MergeCallers == {t \in Threads : pc[t] # "idle" /\ op[t].name = "merge"}

FoundAtEntry(t) ==
    IF Has(pre[t][slotTable[MergeKey]], MergeKey)
    THEN pre[t][slotTable[MergeKey]][MergeKey] ELSE 0

InitialValue ==
    CHOOSE v \in {FoundAtEntry(t) : t \in MergeCallers} :
        \A t \in MergeCallers : v <= FoundAtEntry(t)

\* The sum of the values the merge calls of the threads 1..n that have
\* returned were handed.
RECURSIVE MergedUpTo(_)
MergedUpTo(n) ==
    IF n = 0 THEN 0
    ELSE MergedUpTo(n - 1) + (IF Done(n, "merge") THEN op[n].val ELSE 0)

(***************************************************************************)
(* C32 (SpecMerge): while threads call merge(k, d, current + next) on the  *)
(* same key at once, the value stored under k is the value k had at first  *)
(* (nothing if it was absent) plus the d of every call that has returned,  *)
(* and k is stored once a call has returned; so that after all calls have  *)
(* returned it is the first value plus the sum of all d.                   *)
(***************************************************************************)
C32_MergeAtomic ==
    MergeCallers # {} =>
        LET sum == InitialValue + MergedUpTo(NumThreads)
        IN  /\ sum > 0 => GetNow(MergeKey) = Some(sum)
            /\ sum = 0 => GetNow(MergeKey) = nullopt
            /\ \A t \in Threads : pc[t] \in {"found", "absent"} => Held(t) = {idx[t]}
            /\ Cardinality({t \in Threads : pc[t] \in {"found", "absent"}}) <= 1

\* Two merge calls that were both made before either had run have
\* returned, on a key that was present: the value is the first value plus
\* both their arguments.
C32_Witness ==
    \E t, u \in Threads :
        /\ t # u
        /\ \A w \in Threads : Done(w, "merge")
        /\ pre[t] = pre[u]
        /\ InitialValue = 1
        /\ GetNow(MergeKey) = Some(1 + MergedUpTo(NumThreads))
        /\ MergedUpTo(NumThreads) >= NumThreads

\* The tryAdd calls that returned true and the remove calls that returned
\* a value.
Winners == {t \in Threads : Done(t, "tryAdd") /\ res[t] = TRUE}
Takers == {t \in Threads : Done(t, "remove") /\ res[t] # nullopt}

(***************************************************************************)
(* C33 (SpecRace): of the tryAdd(k, v) calls that threads make at once on  *)
(* an absent key, as soon as one has returned exactly one has returned     *)
(* true, every other returns false, and k stores the v of the call that    *)
(* returned true; of the remove(k) calls made at once on a present key, as *)
(* soon as one has returned exactly one has returned the value that was    *)
(* stored, every other returns empty, and k is absent.                     *)
(***************************************************************************)
C33_OneWins ==
    /\ (\E t \in Threads : Done(t, "tryAdd")) =>
            /\ Cardinality(Winners) = 1
            /\ \A t \in Winners :
                    /\ ~Has(Before(t), RaceKey)
                    /\ GetNow(RaceKey) = Some(op[t].val)
            /\ \A t \in Threads : Done(t, "tryAdd") /\ t \notin Winners => res[t] = FALSE
    /\ (\E t \in Threads : Done(t, "remove")) =>
            /\ Cardinality(Takers) = 1
            /\ \A t \in Takers :
                    /\ Has(Before(t), RaceKey)
                    /\ res[t] = Some(Before(t)[RaceKey])
            /\ GetNow(RaceKey) = nullopt

\* Every thread has returned from a tryAdd call it made while the key was
\* absent, with different values: the last thread won, and its value is
\* the one stored.
C33_Witness ==
    /\ \A t \in Threads : Done(t, "tryAdd") /\ ~Has(Before(t), RaceKey)
    /\ Winners = {NumThreads}
    /\ op[NumThreads].val = 2
    /\ op[1].val = 1
    /\ GetNow(RaceKey) = Some(2)

\* Every thread has returned from a remove call it made while the key was
\* present: one of them took the value.
C33_RemoveRace ==
    /\ \A t \in Threads : Done(t, "remove") /\ Has(Before(t), RaceKey)
    /\ Cardinality(Takers) = 1

\* The positions at which the callback of thread t's call was handed key,
\* and the keys other threads' calls were made on while thread 1's forEach
\* call ran.
Visits(t, key) == {i \in 1..Len(trace[t]) : trace[t][i].args[1] = key}

Touched == {op[u].key : u \in {w \in Threads \ {1} : pc[w] # "idle"}}

Passed(t) == {<<trace[t][i].args[1], trace[t][i].args[2]>> : i \in 1..Len(trace[t])}

\* A step in which thread t leaves Slot::forEach: the callback was invoked
\* once on every entry the slot holds, with the mutex held in shared mode.
ScannedAsStored ==
    \A t \in Threads :
        (InBody(t, "forEach") /\ trace'[t] # trace[t]) =>
            LET m == slots[idx[t]]
                n == Cardinality(DOMAIN m)
            IN  /\ t \in mutex[idx[t]].readers
                /\ Len(trace'[t]) = Len(trace[t]) + n
                /\ SubSeq(trace'[t], 1, Len(trace[t])) = trace[t]
                /\ {<<trace'[t][i].args[1], trace'[t][i].args[2]>> :
                        i \in (Len(trace[t]) + 1)..Len(trace'[t])}
                     = {<<k, m[k]>> : k \in DOMAIN m}

(***************************************************************************)
(* C34 (SpecVisit): a forEach call, whatever other threads add or remove   *)
(* while it runs, hands no key to its callback twice; once it has returned *)
(* it has handed every key that was present when it was entered and was    *)
(* not written meanwhile exactly once, with its value; every slot's scan   *)
(* hands exactly the (key, value) pairs the slot holds at that moment; and *)
(* if nothing was written meanwhile the pairs handed are the entries of    *)
(* the map, each once.                                                     *)
(***************************************************************************)
C34_ForEachVisits ==
    /\ [](\A t \in Threads : op[t].name = "forEach" =>
            /\ \A k \in AllKeys : Cardinality(Visits(t, k)) <= 1
            /\ Done(t, "forEach") =>
                /\ \A k \in AllKeys \ Touched :
                        Has(pre[t][slotTable[k]], k) =>
                            /\ Cardinality(Visits(t, k)) = 1
                            /\ <<k, pre[t][slotTable[k]][k]>> \in Passed(t)
                /\ Touched = {} =>
                        /\ slots = pre[t]
                        /\ Passed(t) = Entries(slots)
                        /\ Len(trace[t]) = MapSize(slots))
    /\ [][ScannedAsStored]_vars

\* forEach has returned from a map of three entries of which another
\* thread removed key 1 before its slot was scanned: keys 3 and 4 were
\* handed once each, key 1 never.
C34_Witness ==
    /\ Done(1, "forEach")
    /\ Done(2, "remove")
    /\ op[2].key = 1
    /\ Entries(pre[1]) = {<<1, 1>>, <<3, 1>>, <<4, 1>>}
    /\ Passed(1) = {<<3, 1>>, <<4, 1>>}
    /\ Len(trace[1]) = 2

(***************************************************************************)
(* C35 (SpecFound): on a map nobody writes, containsIf(predicate) returns  *)
(* true exactly when some entry satisfies the predicate (so false on the   *)
(* empty map); the predicate is true on none of the entries it was shown   *)
(* but, when the call returns true, the last; the map is left as it was;   *)
(* and find with the same predicate returns a value exactly when           *)
(* containsIf returns true.                                                *)
(***************************************************************************)
C35_ContainsIf ==
    \A t \in Threads :
        Done(t, "containsIf") =>
            LET n == Len(trace[t])
            IN  /\ res[t] \in BOOLEAN
                /\ res[t] <=> Matches(t) # {}
                /\ slots = pre[t]
                /\ \A i \in 1..n : trace[t][i].args \in Entries(slots)
                /\ \A i \in 1..(n - 1) : trace[t][i].args \notin Matches(t)
                /\ res[t] => (n > 0 /\ trace[t][n].args \in Matches(t))
                /\ ~res[t] => n = MapSize(slots)
                /\ \A u \in Threads :
                        (Done(u, "find") /\ op[u].fn = op[t].fn) =>
                            (res[t] <=> res[u] # nullopt)

\* containsIf has returned true on a map of three entries after the
\* predicate was shown one entry, and find with the same predicate has
\* returned a value.
C35_Witness ==
    /\ Done(1, "containsIf")
    /\ Done(2, "find")
    /\ op[1].fn = "valIsOne"
    /\ op[2].fn = "valIsOne"
    /\ Entries(slots) = {<<1, 1>>, <<3, 2>>, <<4, 1>>}
    /\ res[1] = TRUE
    /\ res[2] = Some(1)
    /\ Len(trace[1]) = 2

\* A step in which thread t leaves Slot::clear: it holds the slot's mutex
\* in exclusive mode and no other, and the slot alone is emptied.
ClearsOwnSlot ==
    \A t \in Threads :
        (InBody(t, "clear") /\ pc'[t] # "crit") =>
            /\ mutex[idx[t]].writer = t
            /\ Held(t) = {idx[t]}
            /\ \A u \in Threads \ {t} : idx[t] \notin Held(u)
            /\ slots' = [slots EXCEPT ![idx[t]] = EmptyMap]

(***************************************************************************)
(* C36 (SpecClear): clear empties slots[0], slots[1], ... in this order,   *)
(* one per step, holding that slot's mutex in exclusive mode and no other; *)
(* the keys no other thread adds meanwhile are absent from the slots clear *)
(* has left behind, so that after a clear nobody wrote beside, every key   *)
(* is absent and a size() call that follows returns 0.                     *)
(***************************************************************************)
C36_Clear ==
    /\ [](\A t \in Threads :
            /\ (op[t].name = "clear" /\ pc[t] # "idle") =>
                    /\ Held(t) \subseteq {idx[t]}
                    /\ \A k \in AllKeys \ Touched :
                            (slotTable[k] < idx[t] \/ pc[t] = "done") =>
                                GetNow(k) = nullopt
                    /\ (pc[t] = "done" /\ Touched = {}) =>
                            /\ MapSize(slots) = 0
                            /\ idx[t] = SLOT_SIZE - 1
            /\ (t = 1 /\ Done(t, "size") /\ Touched = {}) => res[t] = 0)
    /\ [][ClearsOwnSlot]_vars

\* clear has returned while the key another thread added to slots[0],
\* after clear had left it, is stored.
C36_Witness ==
    /\ Done(1, "clear")
    /\ Done(2, "add")
    /\ op[2].key = 3
    /\ Entries(pre[1]) = {<<1, 1>>, <<2, 1>>, <<3, 1>>}
    /\ Entries(slots) = {<<3, 2>>}

\* size() called after a clear nobody wrote beside has returned 0.
C36_SizeAfterClear ==
    /\ Done(1, "size")
    /\ Touched = {}
    /\ MapSize(pre[1]) = 0
    /\ res[1] = 0

\* An optional and a shared_ptr that are both empty or hold the same value.
SameValue(o, p) ==
    /\ o = nullopt <=> p.null
    /\ o # nullopt => o[1] = p.pointee

(***************************************************************************)
(* C37 (SpecTwin): when the same sequence of get, add, remove, contains,   *)
(* size and clear calls is applied to an empty HashMap and an empty        *)
(* HashMap5, every call returns the same in both (for get, add and remove  *)
(* both nothing or both the same value), and the two maps hold the same    *)
(* entries after every call, whatever slots the entries are in.            *)
(***************************************************************************)
C37_Twins ==
    \A t \in {1} :
        pc[t] \in {"idle", "done"} =>
            /\ Entries(slots) = Entries(HashMap_slots)
            /\ MapSize(slots) = HashMap_size(HashMap_slots, 0)
            /\ op[t].name \in {"get", "add", "remove"} => SameValue(res[t], HashMap_res)
            /\ op[t].name \in {"contains", "size", "clear"} => res[t] = HashMap_res

\* get(3) has returned 2 from both maps, which hold keys 3 and 4: HashMap5
\* has both in slots[0], HashMap has key 3 in slots[3].
C37_Witness ==
    /\ Done(1, "get")
    /\ op[1].key = 3
    /\ res[1] = Some(2)
    /\ HashMap_res = make_shared(2)
    /\ DOMAIN slots[0] = {3, 4}
    /\ DOMAIN HashMap_slots[3] = {3}
    /\ DOMAIN HashMap_slots[0] = {4}

=============================================================================
